---- MODULE Spec2Model ----
(***************************************************************************)
(* The CXXRTL debug server of chipflow-lib (cxxrtl_server.h): the link     *)
(* framing, the packet processor, the server main loop and the agent that  *)
(* runs on the simulation thread, with the record they share.              *)
(***************************************************************************)
EXTENDS Integers, Sequences, FiniteSets, TLC

(***************************************************************************)
(* Bounds of the model.                                                    *)
(***************************************************************************)
\* Simulated time runs over 0..MaxTime; time::maximum() lies beyond it.
MaxTime == 2
\* The recorder writes at most MaxSamples samples into the spool.
MaxSamples == 3
\* The receive buffer holds at most MaxBuf bytes.
MaxBuf == 4
\* The framing specification frames at most MaxPackets packets, each of at
\* most MaxLen bytes, followed by a tail of at most MaxLen bytes.
MaxPackets == 2
MaxLen == 1

VARIABLES
    \* basic_link
    recv_buf, send_buf,
    \* server
    server_pc, got_greeting, emit_simulation_paused, emit_simulation_finished,
    references, player_pos,
    \* agent_server_state
    status, latest_time, next_sample_time, run_until_time,
    run_until_diagnostics, cause, unpause,
    \* agent and its recorder
    agent_pc, advanced_time, rec_time, spool, flushed,
    \* history of the run, read by the properties only
    polled_packets, last_run_bounded, seen_greeting0, run_credit,
    ref_log, query_log,
    \* the framing specification: its phase, the packets to frame, the tail,
    \* the bytes not yet delivered, the packets returned by recv
    fr_phase, fr_packets, fr_tail, fr_wire, fr_got,
    \* the readout specification: its phase, the variable read, the backing
    \* store, the chunks read, the bytes encoded, the text, the build's char
    enc_pc, enc_var, enc_store, item_values, enc_bytes, encoded, char_signed,
    little_endian, enc_reference,
    \* list_scopes on its own: its phase, the names of the items of the
    \* design, the scopes that have a record, the arguments, the response
    sc_pc, sc_items, sc_scopes, sc_all, sc_scope, sc_response,
    \* tcp_link on its own: its phase, its descriptors and buffers, what the
    \* last poll returned and the path it took, the connections open in the
    \* operating system, the listeners created and the clients accepted so
    \* far, what the last recv returned, whether a close erased bytes, the
    \* method called last
    tcp_pc, listenfd, connectfd, tcp_recv_buf, tcp_send_buf, tcp_ret, tcp_path,
    tcp_open, tcp_listeners, tcp_clients, tcp_got, tcp_lost, tcp_call,
    \* the input-command player on its own: its phase, the commands of the
    \* file, the head command, the queues, whether each file was opened, the
    \* file positions of the queued and of the returned actions, the waits
    \* that an event has passed, the last result and its peripheral
    ic_pc, input_cmds, input_ptr, queued_actions, ic_loaded, ic_logging,
    queued_from, returned_from, passed_waits, pending_result, pending_of,
    \* the kinds of the diagnostics the stimulus code has recorded through
    \* the agent since the last step
    recorded_diagnostics

link_vars == <<recv_buf, send_buf>>
server_vars == <<server_pc, got_greeting, emit_simulation_paused,
                 emit_simulation_finished, references, player_pos>>
shared_vars == <<status, latest_time, next_sample_time, run_until_time,
                 run_until_diagnostics, cause, unpause>>
agent_vars == <<agent_pc, advanced_time, rec_time, spool, flushed>>
hist_vars == <<polled_packets, last_run_bounded, seen_greeting0, run_credit,
               ref_log, query_log>>
fr_vars == <<fr_phase, fr_packets, fr_tail, fr_wire, fr_got>>
enc_vars == <<enc_pc, enc_var, enc_store, item_values, enc_bytes, encoded,
              char_signed, little_endian, enc_reference>>
scope_vars == <<sc_pc, sc_items, sc_scopes, sc_all, sc_scope, sc_response>>
\* The variables of the units that are checked on their own.
tcp_vars == <<tcp_pc, listenfd, connectfd, tcp_recv_buf, tcp_send_buf, tcp_ret,
              tcp_path, tcp_open, tcp_listeners, tcp_clients, tcp_got,
              tcp_lost, tcp_call>>
ic_vars == <<ic_pc, input_cmds, input_ptr, queued_actions, ic_loaded,
             ic_logging, queued_from, returned_from, passed_waits,
             pending_result, pending_of>>
beside_enc == <<scope_vars, tcp_vars, ic_vars, recorded_diagnostics>>
beside_scope == <<enc_vars, tcp_vars, ic_vars, recorded_diagnostics>>
beside_tcp == <<enc_vars, scope_vars, ic_vars, recorded_diagnostics>>
beside_ic == <<enc_vars, scope_vars, tcp_vars, recorded_diagnostics>>
pure_vars == <<enc_vars, scope_vars, tcp_vars, ic_vars>>
unit_vars == <<pure_vars, recorded_diagnostics>>
vars == <<link_vars, server_vars, shared_vars, agent_vars, hist_vars, fr_vars,
          unit_vars>>

(***************************************************************************)
(* Time.  cxxrtl::time is a totally ordered value with a maximum.          *)
(***************************************************************************)
TimeMaximum == MaxTime + 1
Times == 0..MaxTime

(***************************************************************************)
(* JSON.  A JSON text is modelled by the value it parses to: a record of   *)
(* the keys the server looks at.  A key that is missing holds "<absent>"   *)
(* (or -2 for a time, -1 for the version); JSON null holds "<null>" (or    *)
(* -1 for a time).                                                         *)
(***************************************************************************)
Absent == "<absent>"
Null == "<null>"
NoTime == 0 - 2
NullTime == 0 - 1

BaseMsg ==
    [ kind |-> "object", type |-> Absent, version |-> -1, command |-> Absent,
      scope |-> Absent, reference |-> Absent, items_kind |-> Absent,
      items |-> <<>>, items_ref |-> "", interval |-> <<>>,
      collapse |-> Absent, encoding |-> Absent, diagnostics |-> Absent,
      until_time |-> NoTime, until_diagnostics_kind |-> Absent,
      until_diagnostics |-> {}, sample_item_values |-> Absent,
      extra |-> FALSE ]

\* json(nullptr) and the result of a failed parse (is_discarded()).
JsonNull == [BaseMsg EXCEPT !.kind = "null"]
JsonDiscarded == [BaseMsg EXCEPT !.kind = "discarded"]

Greeting(v) == [BaseMsg EXCEPT !.type = "greeting", !.version = v]
Command(name) == [BaseMsg EXCEPT !.type = "command", !.command = name]
RunSimulation(t, ds, siv) ==
    [Command("run_simulation") EXCEPT !.until_time = t,
        !.until_diagnostics_kind = "array", !.until_diagnostics = ds,
        !.sample_item_values = siv]
ReferenceItems(ref, kind, desigs) ==
    [Command("reference_items") EXCEPT !.reference = ref,
        !.items_kind = kind, !.items = desigs]
QueryInterval(b, e, col, ref, enc, diag) ==
    [Command("query_interval") EXCEPT !.interval = <<b, e>>,
        !.collapse = col, !.items_kind = (IF ref = Null THEN Null ELSE "string"),
        !.items_ref = (IF ref = Null THEN "" ELSE ref), !.encoding = enc,
        !.diagnostics = diag]

\* A designator of reference_items: [name] or [name, first, last].
Desig1(n) == [name |-> n, size |-> 1, first |-> 0, last |-> 0]
Desig3(n, f, l) == [name |-> n, size |-> 3, first |-> f, last |-> l]

\* What the server sends: greeting, response, error or event.
BaseReply ==
    [ kind |-> "object", type |-> "", name |-> "", status |-> "",
      time |-> NoTime, next_sample_time |-> NoTime, cause |-> "",
      samples |-> <<>> ]

(***************************************************************************)
(* Bytes.  A byte of a buffer is the NUL byte or a NUL-free piece of text; *)
(* a piece of text holds one whole JSON text (or junk that does not        *)
(* parse).                                                                 *)
(***************************************************************************)
NUL == [nul |-> TRUE, json |-> JsonNull]
Text(j) == [nul |-> FALSE, json |-> j]

\* std::string::find('\0'): the first position holding NUL, 0 for npos.
RECURSIVE FindNulFrom(_, _)
FindNulFrom(buf, i) ==
    IF i > Len(buf) THEN 0
    ELSE IF buf[i].nul THEN i
    ELSE FindNulFrom(buf, i + 1)
FindNul(buf) == FindNulFrom(buf, 1)

\* The number of NUL bytes of a buffer: its complete packets.
RECURSIVE CountNul(_)
CountNul(buf) ==
    IF buf = <<>> THEN 0
    ELSE (IF Head(buf).nul THEN 1 ELSE 0) + CountNul(Tail(buf))

\* basic_link::recv with erase(0, pos) in place of erase(0, pos + 1).
link_recv_keeps_nul(buf) ==
    LET pos == FindNul(buf) IN
    IF pos = 0 THEN [packet |-> <<>>, rest |-> buf]
    ELSE [packet |-> SubSeq(buf, 1, pos - 1),
          rest |-> SubSeq(buf, pos, Len(buf))]

\* basic_link::recv: the packet returned and the buffer left.
link_recv(buf) ==
    LET pos == FindNul(buf) IN
    IF pos = 0 THEN [packet |-> <<>>, rest |-> buf]
    ELSE [packet |-> SubSeq(buf, 1, pos - 1),
          rest |-> SubSeq(buf, pos + 1, Len(buf))]

\* basic_link::send.
link_send(buf, packet) == buf \o packet \o <<NUL>>

\* json::parse without exceptions: one whole JSON text parses to its value,
\* anything else (junk, two texts run together) is discarded.
json_parse(raw) ==
    IF Len(raw) = 1 /\ ~raw[1].nul THEN raw[1].json ELSE JsonDiscarded

\* json::dump: the text of a value.
json_dump(j) == <<Text(j)>>

\* server::recv.
server_recv(buf) ==
    LET r == link_recv(buf) IN
    [ json |-> IF r.packet = <<>> THEN JsonNull ELSE json_parse(r.packet),
      rest |-> r.rest ]

\* server::send.
server_send(buf, j) == link_send(buf, json_dump(j))

(***************************************************************************)
(* The design under simulation: debug_items of the toplevel.               *)
(***************************************************************************)
DebugItems ==
    [ clk |-> [memory |-> FALSE, width |-> 1, depth |-> 1],
      mem |-> [memory |-> TRUE, width |-> 8, depth |-> 2] ]
ItemNames == DOMAIN DebugItems
RefNames == {"A", "B"}
DiagnosticTypes == {"break", "print", "assert", "assume"}
BadTime == 0 - 3

(***************************************************************************)
(* Parsers.  Each returns the name of the error it builds, "" for no       *)
(* error, or Throw where the JSON library raises an exception that nothing *)
(* catches.                                                                *)
(***************************************************************************)
Ok == ""
Throw == "<throw>"

\* The argument keys a packet holds (after "type" and "command" are erased).
Keys(p) ==
    (IF p.version # -1 THEN {"version"} ELSE {}) \cup
    (IF p.scope # Absent THEN {"scope"} ELSE {}) \cup
    (IF p.reference # Absent THEN {"reference"} ELSE {}) \cup
    (IF p.items_kind # Absent THEN {"items"} ELSE {}) \cup
    (IF p.interval # <<>> THEN {"interval"} ELSE {}) \cup
    (IF p.collapse # Absent THEN {"collapse"} ELSE {}) \cup
    (IF p.encoding # Absent THEN {"item_values_encoding"} ELSE {}) \cup
    (IF p.diagnostics # Absent THEN {"diagnostics"} ELSE {}) \cup
    (IF p.until_time # NoTime THEN {"until_time"} ELSE {}) \cup
    (IF p.until_diagnostics_kind # Absent THEN {"until_diagnostics"} ELSE {}) \cup
    (IF p.sample_item_values # Absent THEN {"sample_item_values"} ELSE {}) \cup
    (IF p.extra THEN {"<extra>"} ELSE {})

IsBoolean(x) == x \in {"true", "false"}

\* server::parse_packet.
parse_packet(p) ==
    IF p.kind = "discarded" THEN "invalid_json"
    ELSE IF p.kind # "object" \/ p.type = Absent THEN "invalid_packet"
    ELSE Ok

\* server::parse_greeting.
parse_greeting(p) ==
    IF p.version = -1 THEN "invalid_greeting"
    ELSE IF p.version # 0 THEN "unknown_version"
    ELSE Ok

\* server::parse_command.
parse_command(p) ==
    IF p.command = Absent THEN "invalid_command" ELSE Ok

\* server::parse_command_list_scopes and server::parse_command_list_items.
parse_command_list(p) ==
    IF p.scope = Absent THEN "invalid_args"
    ELSE IF Keys(p) \ {"scope"} # {} THEN "invalid_args"
    ELSE Ok

\* The loop over the designators of server::parse_command_reference_items.
RECURSIVE parse_designators(_)
parse_designators(ds) ==
    IF ds = <<>> THEN Ok
    ELSE LET d == Head(ds) IN
         IF d.size \notin {1, 3} THEN "invalid_args"
         ELSE IF d.name \notin ItemNames THEN "item_not_found"
         ELSE IF d.size = 3 /\ ~DebugItems[d.name].memory THEN "wrong_item_type"
         ELSE IF d.size = 1 /\ DebugItems[d.name].memory THEN "wrong_item_type"
         ELSE parse_designators(Tail(ds))

\* server::parse_command_reference_items.
parse_command_reference_items(p) ==
    IF p.reference \in {Absent, ""} THEN "invalid_args"
    ELSE IF p.reference = Null THEN Throw
    ELSE IF p.items_kind \notin {Null, "array"} THEN "invalid_args"
    ELSE IF parse_designators(p.items) # Ok THEN parse_designators(p.items)
    ELSE IF Keys(p) \ {"reference", "items"} # {} THEN "invalid_args"
    ELSE Ok

\* server::parse_command_query_interval; refs is the references map.
parse_command_query_interval(p, refs) ==
    IF Len(p.interval) # 2 THEN "invalid_args"
    ELSE IF p.interval[1] = BadTime \/ p.interval[2] = BadTime THEN "invalid_args"
    ELSE IF ~IsBoolean(p.collapse) THEN "invalid_args"
    ELSE IF ~(p.items_kind = Null \/ (p.items_kind = "string" /\ p.items_ref # ""))
        THEN "invalid_args"
    ELSE IF p.items_kind = "string" /\
            ~(p.items_ref \in RefNames /\ refs[p.items_ref].defined)
        THEN "invalid_reference"
    ELSE IF p.encoding = Absent THEN "invalid_args"
    ELSE IF p.encoding \notin {Null, "base64(u32)"} THEN "invalid_item_values_encoding"
    ELSE IF ~IsBoolean(p.diagnostics) THEN "invalid_args"
    ELSE IF Keys(p) \ {"interval", "collapse", "items", "item_values_encoding",
                       "diagnostics"} # {} THEN "invalid_args"
    ELSE Ok

\* server::parse_command_run_simulation.
parse_command_run_simulation(p) ==
    IF p.until_time = NoTime THEN "invalid_args"
    ELSE IF p.until_time = BadTime THEN "invalid_args"
    ELSE IF p.until_diagnostics_kind # "array" THEN "invalid_args"
    ELSE IF ~(p.until_diagnostics \subseteq DiagnosticTypes) THEN "invalid_args"
    ELSE IF ~IsBoolean(p.sample_item_values) THEN "invalid_args"
    ELSE IF Keys(p) \ {"until_time", "until_diagnostics", "sample_item_values"} # {}
        THEN "invalid_args"
    ELSE Ok

\* The until_time that parse_command_run_simulation hands on.
until_time_of(p) ==
    IF p.until_time = NullTime THEN TimeMaximum ELSE p.until_time

(***************************************************************************)
(* Builders.                                                               *)
(***************************************************************************)
build_greeting == [BaseReply EXCEPT !.type = "greeting"]
build_response(name) == [BaseReply EXCEPT !.type = "response", !.name = name]
build_error(name) == [BaseReply EXCEPT !.type = "error", !.name = name]
build_response_get_simulation_status(st, latest, next) ==
    [build_response("get_simulation_status") EXCEPT
        !.status = (IF st = "initializing" THEN "" ELSE st),
        !.time = latest,
        !.next_sample_time = (IF st = "paused" THEN next ELSE NoTime)]
build_response_pause_simulation(t) ==
    [build_response("pause_simulation") EXCEPT !.time = t]
build_response_query_interval(samples) ==
    [build_response("query_interval") EXCEPT !.samples = samples]
build_event_simulation_paused(t, c) ==
    [BaseReply EXCEPT !.type = "event", !.name = "simulation_paused",
        !.time = t, !.cause = c]
build_event_simulation_finished(t) ==
    [BaseReply EXCEPT !.type = "event", !.name = "simulation_finished", !.time = t]

(***************************************************************************)
(* The spool and the player.  A sample is [t, complete]; the recorder      *)
(* appends to spool and flushed counts the samples that a flush has made   *)
(* durable.  player_pos is the index of the sample the player stands on.   *)
(***************************************************************************)
Sample(t, complete) == [t |-> t, complete |-> complete]
Durable == SubSeq(spool, 1, flushed)

\* player::rewind_to_or_before: the last sample whose time is <= begin.
RECURSIVE rewind_to_or_before(_, _, _)
rewind_to_or_before(vis, begin, i) ==
    IF i = 0 THEN 0
    ELSE IF vis[i].t <= begin THEN i
    ELSE rewind_to_or_before(vis, begin, i - 1)

\* The inner loop of collapse: replay while the next sample has the time of
\* the current one.
RECURSIVE collapse_from(_, _)
collapse_from(vis, pos) ==
    IF pos < Len(vis) /\ vis[pos + 1].t = vis[pos].t
    THEN collapse_from(vis, pos + 1) ELSE pos

\* The sample loop without the check against the end of the interval.
RECURSIVE query_loop_past_end(_, _, _, _, _)
query_loop_past_end(vis, pos, end, collapse, acc) ==
    LET at == IF collapse THEN collapse_from(vis, pos) ELSE pos
        out == Append(acc, vis[at].t)
    IN IF at = Len(vis)
       THEN [pos |-> at, samples |-> out]
       ELSE query_loop_past_end(vis, at + 1, end, collapse, out)

\* The sample loop stopping before a sample at the end of the interval.
RECURSIVE query_loop_before_end(_, _, _, _, _)
query_loop_before_end(vis, pos, end, collapse, acc) ==
    LET at == IF collapse THEN collapse_from(vis, pos) ELSE pos
        out == Append(acc, vis[at].t)
    IN IF at = Len(vis) \/ vis[at + 1].t >= end
       THEN [pos |-> at, samples |-> out]
       ELSE query_loop_before_end(vis, at + 1, end, collapse, out)

\* The sample loop of server::perform_query_interval.
RECURSIVE query_loop(_, _, _, _, _)
query_loop(vis, pos, end, collapse, acc) ==
    LET at == IF collapse THEN collapse_from(vis, pos) ELSE pos
        out == Append(acc, vis[at].t)
    IN IF at = Len(vis) \/ vis[at + 1].t > end
       THEN [pos |-> at, samples |-> out]
       ELSE query_loop(vis, at + 1, end, collapse, out)

\* perform_query_interval taking the fast path without comparing the current
\* time with begin.
perform_query_interval_loose_fast(vis, pos, begin, end, collapse, diag) ==
    LET fast == collapse /\ ~diag /\ pos < Len(vis) /\ vis[pos + 1].t > begin
        from == IF fast THEN pos ELSE rewind_to_or_before(vis, begin, Len(vis))
    IN query_loop(vis, from, end, collapse, <<>>)

\* server::perform_query_interval on the durable samples vis from position
\* pos: the position it leaves and the times of the samples it returns.
perform_query_interval(vis, pos, begin, end, collapse, diag) ==
    LET fast == collapse /\ ~diag /\ vis[pos].t = begin /\
                pos < Len(vis) /\ vis[pos + 1].t > begin
        from == IF fast THEN pos ELSE rewind_to_or_before(vis, begin, Len(vis))
    IN query_loop(vis, from, end, collapse, <<>>)

(***************************************************************************)
(* Initial state: the agent is constructed, no server thread exists.       *)
(***************************************************************************)
NoRef == [defined |-> FALSE, variables |-> <<>>]

\* History of the session: what the last answered reference_items of each
\* name bound, and the last answered query_interval.
NoBinding == [defined |-> FALSE, designators |-> <<>>]
NoQuery ==
    [valid |-> FALSE, packet |-> BaseMsg, flushed |-> 0, samples |-> <<>>,
     again |-> FALSE]
PauseReasons == {"time", "diagnostic"}

InitProgram ==
    /\ recv_buf = <<>> /\ send_buf = <<>>
    /\ recorded_diagnostics = {}
    /\ server_pc = "none"
    /\ got_greeting = FALSE
    /\ emit_simulation_paused = FALSE
    /\ emit_simulation_finished = FALSE
    /\ references = [n \in RefNames |-> NoRef]
    /\ player_pos = 0
    /\ status = "initializing"
    /\ latest_time = 0
    /\ next_sample_time = 0
    /\ run_until_time = TimeMaximum
    /\ run_until_diagnostics = {}
    /\ cause = "time"    \* not initialized; written by the agent before any read
    /\ unpause = FALSE
    /\ agent_pc = "idle"
    /\ advanced_time = 0
    /\ rec_time = 0
    /\ spool = <<>>
    /\ flushed = 0
    /\ polled_packets = 0
    /\ last_run_bounded = FALSE
    /\ seen_greeting0 = FALSE
    /\ run_credit = 0
    /\ ref_log = [n \in RefNames |-> NoBinding]
    /\ query_log = NoQuery

InitFraming ==
    /\ fr_phase = "off"
    /\ fr_packets = <<>> /\ fr_tail = <<>> /\ fr_wire = <<>> /\ fr_got = <<>>

\* No readout is under way.
NoVariable == [width |-> 0, chunks |-> 0, first_index |-> 0, last_index |-> 0]
InitReadoutOff ==
    /\ enc_pc = "off"
    /\ enc_var = NoVariable
    /\ enc_store = <<>>
    /\ item_values = <<>>
    /\ enc_bytes = <<>>
    /\ encoded = <<>>
    /\ char_signed = FALSE
    /\ little_endian = TRUE
    /\ enc_reference = <<>>

InitScopesOff ==
    /\ sc_pc = "off"
    /\ sc_items = {} /\ sc_scopes = {}
    /\ sc_all = FALSE /\ sc_scope = <<>>
    /\ sc_response = <<>>

\* A tcp_link as constructed: neither listening nor connected.
InitTcp ==
    /\ listenfd = -1 /\ connectfd = -1
    /\ tcp_recv_buf = <<>> /\ tcp_send_buf = <<>>
    /\ tcp_ret = TRUE /\ tcp_path = "none"
    /\ tcp_open = {} /\ tcp_listeners = 0 /\ tcp_clients = 0
    /\ tcp_got = <<>> /\ tcp_lost = FALSE /\ tcp_call = "none"
InitTcpOff == tcp_pc = "off" /\ InitTcp

\* The input-command player before any file is opened.
Peripherals == {"gpio_0", "uart_0"}
InitCommands ==
    /\ input_cmds = <<>> /\ input_ptr = 0
    /\ queued_actions = [p \in Peripherals |-> <<>>]
    /\ ic_loaded = FALSE /\ ic_logging = FALSE
    /\ queued_from = [p \in Peripherals |-> <<>>]
    /\ returned_from = [p \in Peripherals |-> <<>>]
    /\ passed_waits = {}
    /\ pending_result = <<>> /\ pending_of = "none"
InitCommandsOff == ic_pc = "off" /\ InitCommands

InitUnitsOff == InitReadoutOff /\ InitScopesOff /\ InitTcpOff /\ InitCommandsOff
InitBesideReadoutOff == InitScopesOff /\ InitTcpOff /\ InitCommandsOff
InitBesideScopesOff == InitReadoutOff /\ InitTcpOff /\ InitCommandsOff
InitBesideTcpOff == InitReadoutOff /\ InitScopesOff /\ InitCommandsOff
InitBesideCommandsOff == InitReadoutOff /\ InitScopesOff /\ InitTcpOff

Init == InitProgram /\ InitFraming /\ InitUnitsOff

\* The process is alive: no assertion has failed, no exception escaped.
Alive == server_pc # "aborted"

\* The simulation thread is inside a critical section of advance or step.
AgentHoldsMutex == agent_pc \in {"adv_flush", "adv_pause", "step_flush", "step_pause"}

(***************************************************************************)
(* The agent, on the simulation thread.                                    *)
(***************************************************************************)
\* What the wrapping performer of step can collect in diagnostics_emitted.
StepDiagnostics == SUBSET {"print", "assert", "assume"}

\* agent::start_debugging: the server thread is created; server::start then
\* waits for the status to leave initializing.
StartDebugging ==
    /\ Alive /\ agent_pc = "idle" /\ server_pc = "none"
    /\ run_until_time' = 0
    /\ server_pc' = "start"
    /\ UNCHANGED <<link_vars, got_greeting, emit_simulation_paused,
                   emit_simulation_finished, references, player_pos, status,
                   latest_time, next_sample_time, run_until_diagnostics, cause,
                   unpause, agent_vars, hist_vars, fr_vars,
                   unit_vars>>

\* agent::advance committing the time without looking at run_until_time.
AgentAdvance_unbounded(delta) ==
    /\ Alive /\ agent_pc = "idle" /\ status # "initializing"
    /\ rec_time + delta <= MaxTime
    /\ rec_time' = rec_time + delta
    /\ latest_time' = rec_time + delta
    /\ UNCHANGED <<agent_pc, advanced_time, spool, flushed>>
    /\ UNCHANGED <<link_vars, server_vars, status, next_sample_time,
                   run_until_time, run_until_diagnostics, cause, unpause,
                   hist_vars, fr_vars,
                   unit_vars>>

\* agent::advance, from the lock to the first decision: either the time is
\* committed and the lock released, or the agent goes on to flush and pause.
AgentAdvance(delta) ==
    /\ Alive /\ agent_pc = "idle" /\ status # "initializing"
    /\ rec_time + delta <= MaxTime
    /\ IF rec_time + delta > run_until_time
       THEN /\ agent_pc' = "adv_flush"
            /\ advanced_time' = rec_time + delta
            /\ UNCHANGED <<rec_time, latest_time>>
       ELSE /\ rec_time' = rec_time + delta
            /\ latest_time' = rec_time + delta
            /\ UNCHANGED <<agent_pc, advanced_time>>
    /\ UNCHANGED <<spool, flushed>>
    /\ UNCHANGED <<link_vars, server_vars, status, next_sample_time,
                   run_until_time, run_until_diagnostics, cause, unpause,
                   hist_vars, fr_vars,
                   unit_vars>>

\* recorder.flush() left out of advance.
AgentAdvanceFlush_skipped ==
    /\ Alive /\ agent_pc = "adv_flush"
    /\ agent_pc' = "adv_pause"
    /\ UNCHANGED <<flushed, advanced_time, rec_time, spool>>
    /\ UNCHANGED <<link_vars, server_vars, shared_vars, hist_vars, fr_vars,
                   unit_vars>>

\* agent::advance: recorder.flush() before the pause loop.
AgentAdvanceFlush ==
    /\ Alive /\ agent_pc = "adv_flush"
    /\ flushed' = Len(spool)
    /\ agent_pc' = "adv_pause"
    /\ UNCHANGED <<advanced_time, rec_time, spool>>
    /\ UNCHANGED <<link_vars, server_vars, shared_vars, hist_vars, fr_vars,
                   unit_vars>>

\* The pause loop of advance entering the wait with the status left alone.
AgentAdvancePause_keeps_status ==
    /\ Alive /\ agent_pc = "adv_pause"
    /\ next_sample_time' = advanced_time
    /\ cause' = "time"
    /\ agent_pc' = "adv_wait"
    /\ UNCHANGED <<advanced_time, rec_time, spool, flushed>>
    /\ UNCHANGED <<link_vars, server_vars, status, latest_time, run_until_time,
                   run_until_diagnostics, unpause, hist_vars, fr_vars,
                   unit_vars>>

\* agent::advance: the body of the pause loop up to the wait, which releases
\* the mutex.
AgentAdvancePause ==
    /\ Alive /\ agent_pc = "adv_pause"
    /\ next_sample_time' = advanced_time
    /\ status' = "paused"
    /\ cause' = "time"
    /\ agent_pc' = "adv_wait"
    /\ UNCHANGED <<advanced_time, rec_time, spool, flushed>>
    /\ UNCHANGED <<link_vars, server_vars, latest_time, run_until_time,
                   run_until_diagnostics, unpause, hist_vars, fr_vars,
                   unit_vars>>

\* The wake of advance with unpause left set.
AgentAdvanceWake_keeps_unpause ==
    /\ Alive /\ agent_pc = "adv_wait" /\ unpause
    /\ run_credit' = run_credit - 1
    /\ IF advanced_time > run_until_time
       THEN /\ next_sample_time' = advanced_time
            /\ status' = "paused"
            /\ cause' = "time"
            /\ UNCHANGED <<agent_pc, advanced_time, rec_time, latest_time>>
       ELSE /\ status' = "running"
            /\ rec_time' = advanced_time
            /\ latest_time' = advanced_time
            /\ agent_pc' = "idle"
            /\ advanced_time' = 0
            /\ UNCHANGED <<next_sample_time, cause>>
    /\ UNCHANGED <<spool, flushed, unpause>>
    /\ UNCHANGED <<link_vars, server_vars, run_until_time, run_until_diagnostics,
                   polled_packets, last_run_bounded, seen_greeting0,
                   ref_log, query_log, fr_vars,
                   unit_vars>>

\* The wake of advance raising run_until_time to the target by itself.
AgentAdvanceWake_raises_until ==
    /\ Alive /\ agent_pc = "adv_wait" /\ unpause
    /\ unpause' = FALSE
    /\ run_credit' = run_credit - 1
    /\ run_until_time' = IF advanced_time > run_until_time
                         THEN advanced_time ELSE run_until_time
    /\ status' = "running"
    /\ rec_time' = advanced_time
    /\ latest_time' = advanced_time
    /\ agent_pc' = "idle"
    /\ advanced_time' = 0
    /\ UNCHANGED <<next_sample_time, cause>>
    /\ UNCHANGED <<spool, flushed>>
    /\ UNCHANGED <<link_vars, server_vars, run_until_diagnostics,
                   polled_packets, last_run_bounded, seen_greeting0,
                   ref_log, query_log, fr_vars,
                   unit_vars>>

\* The wake of advance without the loop: the time is committed whatever
\* run_until_time is.
AgentAdvanceWake_no_loop ==
    /\ Alive /\ agent_pc = "adv_wait" /\ unpause
    /\ unpause' = FALSE
    /\ run_credit' = run_credit - 1
    /\ status' = "running"
    /\ rec_time' = advanced_time
    /\ latest_time' = advanced_time
    /\ agent_pc' = "idle"
    /\ advanced_time' = 0
    /\ UNCHANGED <<next_sample_time, cause>>
    /\ UNCHANGED <<spool, flushed>>
    /\ UNCHANGED <<link_vars, server_vars, run_until_time, run_until_diagnostics,
                   polled_packets, last_run_bounded, seen_greeting0,
                   ref_log, query_log, fr_vars,
                   unit_vars>>

\* agent::advance: the wait returns with unpause set; unpause is cleared, and
\* the loop pauses again or the agent resumes and commits the time.
AgentAdvanceWake ==
    /\ Alive /\ agent_pc = "adv_wait" /\ unpause
    /\ unpause' = FALSE
    /\ run_credit' = run_credit - 1
    /\ IF advanced_time > run_until_time
       THEN /\ next_sample_time' = advanced_time
            /\ status' = "paused"
            /\ cause' = "time"
            /\ UNCHANGED <<agent_pc, advanced_time, rec_time, latest_time>>
       ELSE /\ status' = "running"
            /\ rec_time' = advanced_time
            /\ latest_time' = advanced_time
            /\ agent_pc' = "idle"
            /\ advanced_time' = 0
            /\ UNCHANGED <<next_sample_time, cause>>
    /\ UNCHANGED <<spool, flushed>>
    /\ UNCHANGED <<link_vars, server_vars, run_until_time, run_until_diagnostics,
                   polled_packets, last_run_bounded, seen_greeting0,
                   ref_log, query_log, fr_vars,
                   unit_vars>>

\* agent::step up to the check of the diagnostics: the first call records a
\* complete sample, flushes and leaves initializing; a later call records
\* k incremental samples.
AgentStep(k, emitted) ==
    /\ Alive /\ agent_pc = "idle" /\ status # "finished"
    /\ IF status = "initializing"
       THEN /\ k = 1
            /\ Len(spool) + 1 <= MaxSamples
            /\ spool' = Append(spool, Sample(rec_time, TRUE))
            /\ flushed' = Len(spool) + 1
            /\ status' = "running"
       ELSE /\ Len(spool) + k <= MaxSamples
            /\ spool' = spool \o [i \in 1..k |-> Sample(rec_time, FALSE)]
            /\ UNCHANGED <<flushed, status>>
    /\ agent_pc' = IF run_until_diagnostics \cap emitted # {}
                   THEN "step_flush" ELSE "idle"
    /\ UNCHANGED <<advanced_time, rec_time>>
    /\ UNCHANGED <<link_vars, server_vars, latest_time, next_sample_time,
                   run_until_time, run_until_diagnostics, cause, unpause,
                   hist_vars, fr_vars,
                   pure_vars>>
    /\ recorded_diagnostics' = {}

\* agent::step: recorder.flush() before the pause.
AgentStepFlush ==
    /\ Alive /\ agent_pc = "step_flush"
    /\ flushed' = Len(spool)
    /\ agent_pc' = "step_pause"
    /\ UNCHANGED <<advanced_time, rec_time, spool>>
    /\ UNCHANGED <<link_vars, server_vars, shared_vars, hist_vars, fr_vars,
                   unit_vars>>

\* agent::step: the pause up to the wait, which releases the mutex.
AgentStepPause ==
    /\ Alive /\ agent_pc = "step_pause"
    /\ next_sample_time' = rec_time
    /\ status' = "paused"
    /\ cause' = "diagnostic"
    /\ agent_pc' = "step_wait"
    /\ UNCHANGED <<advanced_time, rec_time, spool, flushed>>
    /\ UNCHANGED <<link_vars, server_vars, latest_time, run_until_time,
                   run_until_diagnostics, unpause, hist_vars, fr_vars,
                   unit_vars>>

\* The wake of step with unpause left set.
AgentStepWake_keeps_unpause ==
    /\ Alive /\ agent_pc = "step_wait" /\ unpause
    /\ run_credit' = run_credit - 1
    /\ status' = "running"
    /\ agent_pc' = "idle"
    /\ UNCHANGED <<advanced_time, rec_time, spool, flushed, unpause>>
    /\ UNCHANGED <<link_vars, server_vars, latest_time, next_sample_time,
                   run_until_time, run_until_diagnostics, cause,
                   polled_packets, last_run_bounded, seen_greeting0,
                   ref_log, query_log, fr_vars,
                   unit_vars>>

\* agent::step: the wait returns with unpause set; the agent clears it and
\* resumes.
AgentStepWake ==
    /\ Alive /\ agent_pc = "step_wait" /\ unpause
    /\ unpause' = FALSE
    /\ run_credit' = run_credit - 1
    /\ status' = "running"
    /\ agent_pc' = "idle"
    /\ UNCHANGED <<advanced_time, rec_time, spool, flushed>>
    /\ UNCHANGED <<link_vars, server_vars, latest_time, next_sample_time,
                   run_until_time, run_until_diagnostics, cause,
                   polled_packets, last_run_bounded, seen_greeting0,
                   ref_log, query_log, fr_vars,
                   unit_vars>>

\* agent::snapshot.
AgentSnapshot ==
    /\ Alive /\ agent_pc = "idle" /\ status # "finished"
    /\ Len(spool) + 1 <= MaxSamples
    /\ spool' = Append(spool, Sample(rec_time, TRUE))
    /\ flushed' = Len(spool) + 1
    /\ UNCHANGED <<agent_pc, advanced_time, rec_time>>
    /\ UNCHANGED <<link_vars, server_vars, shared_vars, hist_vars, fr_vars,
                   unit_vars>>

\* The destructor run while the simulation thread waits in a pause.
AgentDestroy_anytime ==
    /\ Alive /\ agent_pc \in {"idle", "adv_wait", "step_wait"} /\ status # "finished"
    /\ status' = "finished"
    /\ agent_pc' = IF server_pc = "none" THEN "destroyed" ELSE "joining"
    /\ UNCHANGED <<advanced_time, rec_time, spool, flushed>>
    /\ UNCHANGED <<link_vars, server_vars, latest_time, next_sample_time,
                   run_until_time, run_until_diagnostics, cause, unpause,
                   hist_vars, fr_vars,
                   unit_vars>>

\* agent::~agent up to the join.
AgentDestroy ==
    /\ Alive /\ agent_pc = "idle" /\ status # "finished"
    /\ status' = "finished"
    /\ agent_pc' = IF server_pc = "none" THEN "destroyed" ELSE "joining"
    /\ UNCHANGED <<advanced_time, rec_time, spool, flushed>>
    /\ UNCHANGED <<link_vars, server_vars, latest_time, next_sample_time,
                   run_until_time, run_until_diagnostics, cause, unpause,
                   hist_vars, fr_vars,
                   unit_vars>>

\* agent::~agent: thread.join() returns once the server thread has ended.
AgentJoin ==
    /\ Alive /\ agent_pc = "joining" /\ server_pc = "exited"
    /\ agent_pc' = "destroyed"
    /\ UNCHANGED <<advanced_time, rec_time, spool, flushed>>
    /\ UNCHANGED <<link_vars, server_vars, shared_vars, hist_vars, fr_vars,
                   unit_vars>>

(***************************************************************************)
(* The server, on its own thread.                                          *)
(***************************************************************************)
\* A reply is sent and the packet loop goes on.
Reply(r) ==
    /\ send_buf' = server_send(send_buf, r)
    /\ server_pc' = "drain"

\* An error reply, or the end of the process where an exception escapes.
Fail(e) ==
    /\ IF e = Throw
       THEN server_pc' = "aborted" /\ UNCHANGED send_buf
       ELSE Reply(build_error(e))
    /\ UNCHANGED <<got_greeting, emit_simulation_paused, references, player_pos,
                   run_until_time, run_until_diagnostics, unpause,
                   last_run_bounded, run_credit>>

\* The variables of a reference: one per designator, in order.
variables_of(designators) ==
    [i \in 1..Len(designators) |->
        [ name |-> designators[i].name,
          width |-> DebugItems[designators[i].name].width,
          chunks |-> (DebugItems[designators[i].name].width + 31) \div 32,
          first_index |-> designators[i].first,
          last_index |-> designators[i].last ]]

\* The first designator whose indices are not below the depth of its item,
\* 0 where there is none: where the assertion of perform_reference_items
\* fails.
RECURSIVE first_out_of_range(_, _)
first_out_of_range(designators, i) ==
    IF i > Len(designators) THEN 0
    ELSE IF designators[i].first >= DebugItems[designators[i].name].depth
            \/ designators[i].last >= DebugItems[designators[i].name].depth
    THEN i
    ELSE first_out_of_range(designators, i + 1)

\* A variable of the reference reads past the end of its item.
reads_out_of_range(reference) ==
    \E i \in 1..Len(reference.variables) :
        LET var == reference.variables[i] IN
        \/ var.first_index >= DebugItems[var.name].depth
        \/ var.last_index >= DebugItems[var.name].depth

\* perform_reference_items keeping the variables the name had.
perform_reference_items_appends(name, erase, designators) ==
    references' = [references EXCEPT ![name] =
        IF erase THEN NoRef
        ELSE [defined |-> TRUE,
              variables |-> references[name].variables \o variables_of(designators)]]

\* server::perform_reference_items.
perform_reference_items(name, erase, designators) ==
    references' = [references EXCEPT ![name] =
        IF erase THEN NoRef
        ELSE [defined |-> TRUE, variables |-> variables_of(designators)]]

\* server::perform_run_simulation with the time bound stored before the
\* status is checked.
perform_run_simulation_early_write(until_time, until_diagnostics, sample_item_values) ==
    IF status # "paused"
    THEN /\ Reply(build_error("invalid_status"))
         /\ run_until_time' = until_time
         /\ UNCHANGED <<got_greeting, emit_simulation_paused, references,
                        player_pos, run_until_diagnostics, unpause,
                        last_run_bounded, run_credit>>
    ELSE /\ run_until_time' = until_time
         /\ run_until_diagnostics' = until_diagnostics
         /\ emit_simulation_paused' =
                (until_time < TimeMaximum \/ until_diagnostics # {})
         /\ IF sample_item_values
            THEN /\ unpause' = TRUE
                 /\ run_credit' = run_credit + 1
                 /\ server_pc' = "run_wait"
            ELSE /\ server_pc' \in {"aborted", "run_wait"}
                 /\ unpause' = (server_pc' = "run_wait")
                 /\ run_credit' = run_credit + (IF server_pc' = "run_wait" THEN 1 ELSE 0)
         /\ UNCHANGED <<send_buf, got_greeting, references, player_pos>>

\* server::perform_run_simulation without the check of the status.
perform_run_simulation_any_status(until_time, until_diagnostics, sample_item_values) ==
    /\ run_until_time' = until_time
    /\ run_until_diagnostics' = until_diagnostics
    /\ emit_simulation_paused' =
           (until_time < TimeMaximum \/ until_diagnostics # {})
    /\ unpause' = TRUE
    /\ run_credit' = run_credit + 1
    /\ server_pc' = "run_wait"
    /\ UNCHANGED <<send_buf, got_greeting, references, player_pos>>

\* server::perform_run_simulation with the latch set for every run.
perform_run_simulation_always_emit(until_time, until_diagnostics, sample_item_values) ==
    IF status # "paused"
    THEN Fail("invalid_status")
    ELSE /\ run_until_time' = until_time
         /\ run_until_diagnostics' = until_diagnostics
         /\ emit_simulation_paused' = TRUE
         /\ unpause' = TRUE
         /\ run_credit' = run_credit + 1
         /\ server_pc' = "run_wait"
         /\ UNCHANGED <<send_buf, got_greeting, references, player_pos>>

\* server::perform_run_simulation up to the wait for unpause == false, and
\* the error reply of process_packet when it returns false.  With
\* sample_item_values false CXXRTL_ASSERT ends the process where assertions
\* are compiled in.
perform_run_simulation(until_time, until_diagnostics, sample_item_values) ==
    IF status # "paused"
    THEN Fail("invalid_status")
    ELSE /\ run_until_time' = until_time
         /\ run_until_diagnostics' = until_diagnostics
         /\ emit_simulation_paused' =
                (until_time < TimeMaximum \/ until_diagnostics # {})
         /\ IF sample_item_values
            THEN /\ unpause' = TRUE
                 /\ run_credit' = run_credit + 1
                 /\ server_pc' = "run_wait"
            ELSE /\ server_pc' \in {"aborted", "run_wait"}
                 /\ unpause' = (server_pc' = "run_wait")
                 /\ run_credit' = run_credit + (IF server_pc' = "run_wait" THEN 1 ELSE 0)
         /\ UNCHANGED <<send_buf, got_greeting, references, player_pos>>

\* server::perform_pause_simulation up to the wait for status != running;
\* where the status is not running the wait returns at once.
perform_pause_simulation ==
    /\ run_until_time' = 0
    /\ IF status # "running"
       THEN Reply(build_response_pause_simulation(latest_time))
       ELSE server_pc' = "pause_wait" /\ UNCHANGED send_buf
    /\ UNCHANGED <<got_greeting, emit_simulation_paused, references, player_pos,
                   run_until_diagnostics, unpause, last_run_bounded, run_credit>>

\* A successful command that changes nothing of the server.
Respond(r) ==
    /\ Reply(r)
    /\ UNCHANGED <<got_greeting, emit_simulation_paused, references, player_pos,
                   run_until_time, run_until_diagnostics, unpause,
                   last_run_bounded, run_credit>>

\* An assertion of perform_query_interval fails and ends the process.
QueryAborts ==
    /\ server_pc' = "aborted"
    /\ UNCHANGED <<send_buf, got_greeting, emit_simulation_paused, references,
                   player_pos, run_until_time, run_until_diagnostics, unpause,
                   last_run_bounded, run_credit>>

\* The query_interval branch of process_packet.  The assertion on the
\* encoding ends the process in a build that compiles assertions in, and
\* is skipped in a build that compiles them out; a variable whose indices
\* are not below the depth of its item is read past the end of the item,
\* which ends the process or returns whatever lies there.
process_query_interval(p) ==
    LET e == parse_command_query_interval(p, references)
        ref == IF p.items_kind = "string" THEN p.items_ref ELSE ""
        enc == IF p.encoding = Null THEN "" ELSE p.encoding
        q == perform_query_interval(Durable, player_pos, p.interval[1],
                 p.interval[2], p.collapse = "true", p.diagnostics = "true")
    IN IF e # Ok THEN Fail(e)
       ELSE IF flushed = 0 \/ player_pos = 0
       THEN QueryAborts
       ELSE \/ (ref # "" /\ enc # "base64(u32)") /\ QueryAborts
            \/ /\ ref # "" /\ enc = "base64(u32)"
               /\ reads_out_of_range(references[ref])
               /\ QueryAborts
            \/ /\ Reply(build_response_query_interval(q.samples))
               /\ player_pos' = q.pos
               /\ UNCHANGED <<got_greeting, emit_simulation_paused, references,
                              run_until_time, run_until_diagnostics, unpause,
                              last_run_bounded, run_credit>>

\* The reference_items branch with the name erased before the arguments
\* are checked.
process_reference_items_erases_first(p) ==
    LET e == parse_command_reference_items(p) IN
    /\ IF e = Ok
       THEN /\ perform_reference_items(p.reference, p.items_kind = Null, p.items)
            /\ Reply(build_response("reference_items"))
       ELSE /\ references' = IF p.reference \in RefNames
                              THEN [references EXCEPT ![p.reference] = NoRef]
                              ELSE references
            /\ IF e = Throw THEN server_pc' = "aborted" /\ UNCHANGED send_buf
               ELSE Reply(build_error(e))
    /\ UNCHANGED <<got_greeting, emit_simulation_paused, player_pos,
                   run_until_time, run_until_diagnostics, unpause,
                   last_run_bounded, run_credit>>

\* The reference_items branch of process_packet.  The assertion on the
\* indices ends the process, with the name erased and the variables before
\* the failing designator pushed, in a build that compiles assertions in.
process_reference_items(p) ==
    LET e == parse_command_reference_items(p)
        k == first_out_of_range(p.items, 1)
    IN
    IF e # Ok THEN Fail(e)
    ELSE \/ /\ perform_reference_items(p.reference, p.items_kind = Null, p.items)
            /\ Reply(build_response("reference_items"))
            /\ UNCHANGED <<got_greeting, emit_simulation_paused, player_pos,
                           run_until_time, run_until_diagnostics, unpause,
                           last_run_bounded, run_credit>>
         \/ /\ p.items_kind # Null /\ k # 0
            /\ perform_reference_items(p.reference, FALSE, SubSeq(p.items, 1, k - 1))
            /\ server_pc' = "aborted"
            /\ UNCHANGED <<send_buf, got_greeting, emit_simulation_paused,
                           player_pos, run_until_time, run_until_diagnostics,
                           unpause, last_run_bounded, run_credit>>

\* The run_simulation branch of process_packet.
process_run_simulation(p) ==
    LET e == parse_command_run_simulation(p) IN
    IF e # Ok THEN Fail(e) /\ UNCHANGED last_run_bounded
    ELSE /\ perform_run_simulation(until_time_of(p), p.until_diagnostics,
                p.sample_item_values = "true")
         /\ last_run_bounded' =
                IF status = "paused"
                THEN (p.until_time # NullTime \/ p.until_diagnostics # {})
                ELSE last_run_bounded

\* The reply a step has appended to the send buffer, if it has.
reply_of(old, new) ==
    IF Len(new) > Len(old) THEN new[Len(new) - 1].json ELSE BaseReply

\* The binding the last answered reference_items of each name made.
log_reference(log, p, reply) ==
    IF p.kind = "object" /\ p.type = "command" /\ p.command = "reference_items"
       /\ reply = build_response("reference_items")
    THEN [log EXCEPT ![p.reference] =
             IF p.items_kind = Null THEN NoBinding
             ELSE [defined |-> TRUE, designators |-> p.items]]
    ELSE log

\* The last answered query_interval, and whether the one before it was the
\* same command over the same durable samples.
log_query(log, p, reply, durable) ==
    IF p.kind = "object" /\ p.type = "command" /\ p.command = "query_interval"
       /\ reply.type = "response"
    THEN [valid |-> TRUE, packet |-> p, flushed |-> durable,
          samples |-> reply.samples,
          again |-> (log.valid /\ log.packet = p /\ log.flushed = durable)]
    ELSE log

\* The commands that take the mutex of the shared record.
NeedsMutex(p) ==
    /\ parse_packet(p) = Ok /\ p.type = "command" /\ got_greeting
    /\ p.command \in {"get_simulation_status", "run_simulation", "pause_simulation"}

\* The dispatch of process_packet on the name of a command.
process_command(p) ==
    IF parse_command(p) # Ok THEN Fail(parse_command(p))
    ELSE IF p.command \in {"list_scopes", "list_items"}
    THEN IF parse_command_list(p) # Ok THEN Fail(parse_command_list(p))
         ELSE Respond(build_response(p.command))
    ELSE IF p.command = "reference_items" THEN process_reference_items(p)
    ELSE IF p.command = "query_interval" THEN process_query_interval(p)
    ELSE IF p.command = "get_simulation_status"
    THEN IF Keys(p) # {} THEN Fail("invalid_args")
         ELSE Respond(build_response_get_simulation_status(
                  status, latest_time, next_sample_time))
    ELSE IF p.command = "run_simulation" THEN process_run_simulation(p)
    ELSE IF p.command = "pause_simulation"
    THEN IF Keys(p) # {} THEN Fail("invalid_args")
         ELSE perform_pause_simulation
    ELSE Fail("invalid_command")

\* The greeting branch of process_packet.
process_greeting(p) ==
    IF parse_greeting(p) # Ok THEN Fail(parse_greeting(p))
    ELSE /\ got_greeting' = TRUE
         /\ Reply(build_greeting)
         /\ UNCHANGED <<emit_simulation_paused, references, player_pos,
                        run_until_time, run_until_diagnostics, unpause,
                        last_run_bounded, run_credit>>

\* server::process_packet with the greeting gate left out.
process_packet_ungated(p) ==
    IF parse_packet(p) # Ok THEN Fail(parse_packet(p))
    ELSE IF p.type = "greeting" THEN process_greeting(p)
    ELSE IF p.type = "command" THEN process_command(p)
    ELSE Fail("invalid_packet")

\* server::process_packet together with the send of its reply.
process_packet(p) ==
    IF parse_packet(p) # Ok THEN Fail(parse_packet(p))
    ELSE IF p.type = "greeting" THEN process_greeting(p)
    ELSE IF p.type = "command"
    THEN IF ~got_greeting THEN Fail("protocol_error") ELSE process_command(p)
    ELSE Fail("invalid_packet")

\* server::start with a server constructed with the simulation_finished
\* latch set.
ServerStart_latches_finished ==
    /\ Alive /\ server_pc = "start" /\ status # "initializing"
    /\ ~AgentHoldsMutex
    /\ server_pc' = "poll"
    /\ player_pos' = IF flushed > 0 THEN 1 ELSE 0
    /\ emit_simulation_finished' = TRUE
    /\ UNCHANGED <<link_vars, got_greeting, emit_simulation_paused,
                   references, shared_vars,
                   agent_vars, hist_vars, fr_vars,
                   unit_vars>>

\* server::start: the wait for the status to leave initializing, then the
\* construction of the server, whose player replays the first sample.
ServerStart ==
    /\ Alive /\ server_pc = "start" /\ status # "initializing"
    /\ ~AgentHoldsMutex
    /\ server_pc' = "poll"
    /\ player_pos' = IF flushed > 0 THEN 1 ELSE 0
    /\ UNCHANGED <<link_vars, got_greeting, emit_simulation_paused,
                   emit_simulation_finished, references, shared_vars,
                   agent_vars, hist_vars, fr_vars,
                   unit_vars>>

\* The streams of bytes a debugger can have sent: each text is followed by
\* NUL before the next text starts.
Framed(buf) == \A i \in 1..(Len(buf) - 1) : buf[i].nul \/ buf[i + 1].nul

\* Every sequence of at most n of the bytes.
RECURSIVE SeqsUpTo(_, _)
SeqsUpTo(bytes, n) ==
    IF n = 0 THEN {<<>>}
    ELSE LET shorter == SeqsUpTo(bytes, n - 1)
         IN shorter \cup {Append(s, b) : s \in shorter, b \in bytes}

\* The chunks a poll can receive from a debugger that sends its next packet
\* after the reply to the last one: nothing (a timeout), or one packet.
PacketChunks(texts) ==
    {<<>>, <<NUL>>} \cup {<<Text(j), NUL>> : j \in texts}

\* The chunks a poll can receive from a debugger that sends ahead: any bytes
\* that keep the stream framed and the buffer within MaxBuf.
ByteChunks(bytes) ==
    {c \in SeqsUpTo(bytes, MaxBuf - Len(recv_buf)) : Framed(recv_buf \o c)}

\* link.poll returns true: the send buffer is written out and the bytes
\* that have arrived (none on a timeout) are appended to the receive buffer.
ServerPollOk(chunks) ==
    /\ Alive /\ server_pc = "poll"
    /\ send_buf' = <<>>
    /\ \E chunk \in chunks : recv_buf' = recv_buf \o chunk
    /\ polled_packets' = CountNul(recv_buf')
    /\ server_pc' = "drain"
    /\ UNCHANGED <<got_greeting, emit_simulation_paused,
                   emit_simulation_finished, references, player_pos,
                   shared_vars, agent_vars, last_run_bounded, seen_greeting0,
                   run_credit, ref_log, query_log, fr_vars,
                   unit_vars>>

\* link.poll returns false (end of the input stream, or an I/O error): the
\* loop of server::run ends.
ServerPollFail ==
    /\ Alive /\ server_pc = "poll"
    /\ send_buf' \in {send_buf, <<>>}
    /\ server_pc' = "exited"
    /\ UNCHANGED <<recv_buf, got_greeting, emit_simulation_paused,
                   emit_simulation_finished, references, player_pos,
                   shared_vars, agent_vars, hist_vars, fr_vars,
                   unit_vars>>

\* One turn of the packet loop of server::run: recv, and unless the packet
\* compares equal to nullptr, process_packet and send.
ServerDrain ==
    /\ Alive /\ server_pc = "drain"
    /\ LET r == server_recv(recv_buf) IN
       /\ NeedsMutex(r.json) => ~AgentHoldsMutex
       /\ recv_buf' = r.rest
       /\ seen_greeting0' = (seen_greeting0 \/
              (r.json.kind = "object" /\ r.json.type = "greeting" /\ r.json.version = 0))
       /\ IF r.json.kind = "null"
          THEN /\ server_pc' = "events"
               /\ UNCHANGED <<send_buf, got_greeting, emit_simulation_paused,
                              references, player_pos, run_until_time,
                              run_until_diagnostics, unpause, last_run_bounded,
                              run_credit>>
          ELSE process_packet(r.json)
       /\ ref_log' = log_reference(ref_log, r.json, reply_of(send_buf, send_buf'))
       /\ query_log' = log_query(query_log, r.json, reply_of(send_buf, send_buf'),
                                 flushed)
    /\ UNCHANGED <<emit_simulation_finished, status, latest_time,
                   next_sample_time, cause, agent_vars, polled_packets, fr_vars,
                   unit_vars>>

\* server::perform_run_simulation: the wait for unpause == false returns, and
\* process_packet builds the response.
ServerRunWake ==
    /\ Alive /\ server_pc = "run_wait" /\ ~unpause /\ ~AgentHoldsMutex
    /\ Reply(build_response("run_simulation"))
    /\ UNCHANGED <<recv_buf, got_greeting, emit_simulation_paused,
                   emit_simulation_finished, references, player_pos,
                   shared_vars, agent_vars, hist_vars, fr_vars,
                   unit_vars>>

\* server::perform_pause_simulation: the wait for status != running returns.
ServerPauseWake ==
    /\ Alive /\ server_pc = "pause_wait" /\ status # "running" /\ ~AgentHoldsMutex
    /\ Reply(build_response_pause_simulation(latest_time))
    /\ UNCHANGED <<recv_buf, got_greeting, emit_simulation_paused,
                   emit_simulation_finished, references, player_pos,
                   shared_vars, agent_vars, hist_vars, fr_vars,
                   unit_vars>>

\* The causes of the event exchanged.
cause_name_swapped(c) == IF c = "time" THEN "until_diagnostics" ELSE "until_time"

\* The cause a simulation_paused event names.
cause_name(c) == IF c = "time" THEN "until_time" ELSE "until_diagnostics"

\* The event block of server::run with the simulation_paused latch left set.
ServerEvents_keeps_latch ==
    /\ Alive /\ server_pc = "events" /\ ~AgentHoldsMutex
    /\ send_buf' = IF emit_simulation_paused /\ status = "paused"
                   THEN server_send(send_buf, build_event_simulation_paused(
                            latest_time, cause_name(cause)))
                   ELSE send_buf
    /\ server_pc' = "poll"
    /\ UNCHANGED <<recv_buf, got_greeting, emit_simulation_paused,
                   emit_simulation_finished, references, player_pos, shared_vars,
                   agent_vars, hist_vars, fr_vars,
                   unit_vars>>

\* The event block of server::run, under the mutex.
ServerEvents ==
    /\ Alive /\ server_pc = "events" /\ ~AgentHoldsMutex
    /\ LET paused == emit_simulation_paused /\ status = "paused"
           finished == emit_simulation_finished /\ status = "finished"
           buf1 == IF paused
                   THEN server_send(send_buf, build_event_simulation_paused(
                            latest_time, cause_name(cause)))
                   ELSE send_buf
           buf2 == IF finished
                   THEN server_send(buf1, build_event_simulation_finished(latest_time))
                   ELSE buf1
       IN /\ emit_simulation_paused' = (emit_simulation_paused /\ ~paused)
          /\ emit_simulation_finished' = (emit_simulation_finished /\ ~finished)
          /\ send_buf' = buf2
    /\ server_pc' = "poll"
    /\ UNCHANGED <<recv_buf, got_greeting, references, player_pos, shared_vars,
                   agent_vars, hist_vars, fr_vars,
                   unit_vars>>

(***************************************************************************)
(* The debugger: the texts it sends.                                       *)
(***************************************************************************)
\* The texts of a debugger that drives the simulation.
SimTexts ==
    {Greeting(0), Command("get_simulation_status"), Command("pause_simulation"),
     JsonNull} \cup
    {RunSimulation(t, ds, "true") :
        t \in {NullTime} \cup (1..MaxTime), ds \in {{}, {"assert"}}}

\* The texts of a debugger that tries every kind of packet.
ProtoTexts ==
    {JsonDiscarded, JsonNull, BaseMsg, [BaseMsg EXCEPT !.type = "event"],
     Greeting(0), Greeting(1), Greeting(0 - 1),
     [BaseMsg EXCEPT !.type = "command"], Command("bogus"),
     Command("list_scopes"), [Command("list_scopes") EXCEPT !.scope = Null],
     Command("get_simulation_status"),
     [Command("get_simulation_status") EXCEPT !.extra = TRUE],
     Command("pause_simulation"),
     RunSimulation(NullTime, {}, "true"), RunSimulation(1, {"assert"}, "true"),
     RunSimulation(BadTime, {}, "true"), RunSimulation(NullTime, {"bogus"}, "true"),
     RunSimulation(NullTime, {}, "false"),
     ReferenceItems("A", "array", <<Desig1("clk")>>),
     ReferenceItems("A", "array", <<Desig3("mem", 0, 1), Desig1("clk")>>),
     ReferenceItems("A", Null, <<>>),
     ReferenceItems("A", "array", <<Desig1("nope")>>),
     ReferenceItems("A", "array", <<Desig1("mem")>>),
     ReferenceItems("A", "array", <<Desig3("clk", 0, 0)>>),
     [ReferenceItems("A", "array", <<Desig1("clk")>>) EXCEPT !.extra = TRUE],
     ReferenceItems("", "array", <<>>),
     QueryInterval(0, MaxTime, "true", Null, Null, "false"),
     QueryInterval(1, 1, "false", "A", "base64(u32)", "false"),
     QueryInterval(0, 0, "true", "B", "base64(u32)", "false"),
     QueryInterval(0, 1, "true", Null, "hex", "false"),
     QueryInterval(BadTime, 1, "true", Null, Null, "false")}

ServerPoll == ServerPollOk(PacketChunks(SimTexts))
ServerPollProto == ServerPollOk(PacketChunks(ProtoTexts))

(***************************************************************************)
(* The simulation thread: the calls the stimulus code makes.               *)
(***************************************************************************)
SimAdvance == AgentAdvance(1)
SimStep == \E emitted \in StepDiagnostics : AgentStep(1, emitted)

\* The whole program with a debugger that drives the simulation.
Next ==
    \/ StartDebugging
    \/ SimAdvance
    \/ AgentAdvanceFlush
    \/ AgentAdvancePause
    \/ AgentAdvanceWake
    \/ SimStep
    \/ AgentStepFlush
    \/ AgentStepPause
    \/ AgentStepWake
    \/ AgentSnapshot
    \/ AgentDestroy
    \/ AgentJoin
    \/ ServerStart
    \/ ServerPoll
    \/ ServerPollFail
    \/ ServerDrain
    \/ ServerRunWake
    \/ ServerPauseWake
    \/ ServerEvents

Spec == Init /\ [][Next]_vars

\* The stimulus code of a plain test bench: step and advance in any order,
\* no diagnostics, no snapshots, and the agent outlives the session.
SimStepQuiet == AgentStep(1, {})

\* The whole program with a debugger that tries every kind of packet, one
\* packet at a time.
NextProto ==
    \/ StartDebugging
    \/ SimAdvance
    \/ AgentAdvanceFlush
    \/ AgentAdvancePause
    \/ AgentAdvanceWake
    \/ SimStepQuiet
    \/ ServerStart
    \/ ServerPollProto
    \/ ServerPollFail
    \/ ServerDrain
    \/ ServerRunWake
    \/ ServerPauseWake
    \/ ServerEvents

SpecProto == Init /\ [][NextProto]_vars

\* The bytes of a debugger that sends ahead of the replies.
DrainTexts ==
    {JsonNull, JsonDiscarded, Greeting(0), Command("get_simulation_status")}
DrainBytes == {NUL} \cup {Text(j) : j \in DrainTexts}
ServerPollBytes == ServerPollOk(ByteChunks(DrainBytes))

\* The whole program with a debugger that sends ahead of the replies.
NextDrain ==
    \/ StartDebugging
    \/ SimAdvance
    \/ AgentAdvanceFlush
    \/ AgentAdvancePause
    \/ SimStepQuiet
    \/ ServerStart
    \/ ServerPollBytes
    \/ ServerPollFail
    \/ ServerDrain
    \/ ServerEvents

SpecDrain == Init /\ [][NextDrain]_vars

(***************************************************************************)
(* The framing alone: packets are sent into a send buffer, the bytes are   *)
(* carried to a receive buffer in chunks, and recv takes them out again.   *)
(***************************************************************************)
\* Two bytes that are not NUL.
FrBytes == {Text(JsonNull), Text(JsonDiscarded)}
FrPackets == SeqsUpTo(FrBytes, MaxLen)

InitLink ==
    /\ InitProgram
    /\ InitUnitsOff
    /\ fr_phase = "send"
    /\ fr_packets \in SeqsUpTo(FrPackets, MaxPackets)
    /\ fr_tail \in FrPackets
    /\ fr_wire = <<>>
    /\ fr_got = <<>>

\* One call of send, with the next packet.
LinkSend ==
    /\ fr_phase = "send"
    /\ CountNul(send_buf) < Len(fr_packets)
    /\ send_buf' = link_send(send_buf, fr_packets[CountNul(send_buf) + 1])
    /\ UNCHANGED <<recv_buf, server_vars, shared_vars, agent_vars, hist_vars,
                   fr_vars,
                   unit_vars>>

\* The poll of the sending side writes the send buffer out and erases it;
\* the bytes of the tail follow on the stream.
LinkFlush ==
    /\ fr_phase = "send"
    /\ CountNul(send_buf) = Len(fr_packets)
    /\ fr_wire' = send_buf \o fr_tail
    /\ send_buf' = <<>>
    /\ fr_phase' = "deliver"
    /\ UNCHANGED <<recv_buf, server_vars, shared_vars, agent_vars, hist_vars,
                   fr_packets, fr_tail, fr_got, unit_vars>>

\* The poll of the receiving side appends the bytes one read returns.
LinkDeliver ==
    /\ fr_phase = "deliver"
    /\ \E n \in 1..Len(fr_wire) :
          /\ recv_buf' = recv_buf \o SubSeq(fr_wire, 1, n)
          /\ fr_wire' = SubSeq(fr_wire, n + 1, Len(fr_wire))
    /\ UNCHANGED <<send_buf, server_vars, shared_vars, agent_vars, hist_vars,
                   fr_phase, fr_packets, fr_tail, fr_got, unit_vars>>

\* One call of recv while a complete packet is in the buffer.
LinkRecv ==
    /\ fr_phase = "deliver"
    /\ FindNul(recv_buf) # 0
    /\ fr_got' = Append(fr_got, link_recv(recv_buf).packet)
    /\ recv_buf' = link_recv(recv_buf).rest
    /\ UNCHANGED <<send_buf, server_vars, shared_vars, agent_vars, hist_vars,
                   fr_phase, fr_packets, fr_tail, fr_wire, unit_vars>>

NextLink == LinkSend \/ LinkFlush \/ LinkDeliver \/ LinkRecv

SpecLink == InitLink /\ [][NextLink]_vars
(***************************************************************************)
(* Properties.                                                             *)
(***************************************************************************)
\* The packet the packet loop takes next, and whether a step is a turn of
\* the loop that processes one.
HeadPacket == server_recv(recv_buf).json
Processes ==
    server_pc = "drain" /\ HeadPacket.kind # "null" /\ recv_buf' # recv_buf

\* A step that sends exactly the one packet r.
Sends(r) == send_buf' = send_buf \o <<Text(r), NUL>>
\* A step that sends exactly one packet, of type error.
SendsError ==
    /\ Len(send_buf') = Len(send_buf) + 2
    /\ SubSeq(send_buf', 1, Len(send_buf)) = send_buf
    /\ send_buf'[Len(send_buf) + 1].json.type = "error"
\* The buffer holds the text of r.
Holds(buf, r) == \E i \in 1..Len(buf) : buf[i] = Text(r)

\* What the protocol session and the shared record consist of.
session_vars == <<references, got_greeting, emit_simulation_paused,
                  emit_simulation_finished, player_pos, shared_vars>>

\* C1: before a greeting with version 0 has been processed, a command is
\* answered with protocol_error and has no effect; a greeting without a
\* version is answered with invalid_greeting, one with another version with
\* unknown_version, and neither opens the gate.
C1_GreetingGate ==
    [][ /\ (~seen_greeting0 => ~got_greeting)
        /\ (Processes /\ ~seen_greeting0 /\ HeadPacket.kind = "object") =>
             /\ HeadPacket.type = "command" =>
                  /\ Sends(build_error("protocol_error"))
                  /\ server_pc' = "drain"
                  /\ UNCHANGED session_vars
             /\ (HeadPacket.type = "greeting" /\ HeadPacket.version = 0 - 1) =>
                  /\ Sends(build_error("invalid_greeting"))
                  /\ ~got_greeting'
             /\ (HeadPacket.type = "greeting" /\ HeadPacket.version \notin {0 - 1, 0}) =>
                  /\ Sends(build_error("unknown_version"))
                  /\ ~got_greeting'
      ]_vars

\* C1 witness: a command was refused before any greeting.
C1_Witness ==
    /\ ~seen_greeting0
    /\ Holds(send_buf, build_error("protocol_error"))

\* C2: when the packet loop has ended, no complete packet is left in the
\* receive buffer and one reply has been sent for every complete packet the
\* poll left there.
C2_DrainsAll ==
    server_pc = "events" =>
        /\ CountNul(recv_buf) = 0
        /\ CountNul(send_buf) = polled_packets

\* The stream that framing the packets ps produces.
RECURSIVE FrameAll(_)
FrameAll(ps) ==
    IF ps = <<>> THEN <<>>
    ELSE Head(ps) \o <<NUL>> \o FrameAll(Tail(ps))

\* C3: send appends the packet and one NUL; recv returns the packets of the
\* stream in order, whatever the chunks, and leaves the tail.
C3_FramingReversible ==
    /\ fr_phase = "send" =>
          send_buf = FrameAll(SubSeq(fr_packets, 1, CountNul(send_buf)))
    /\ Len(fr_got) <= Len(fr_packets)
    /\ fr_got = SubSeq(fr_packets, 1, Len(fr_got))
    /\ (fr_phase = "deliver" /\ fr_wire = <<>> /\ FindNul(recv_buf) = 0) =>
          /\ fr_got = fr_packets
          /\ recv_buf = fr_tail

\* C3 witness: two packets, the first of them empty, came out of a stream
\* that ends in a tail.
C3_Witness ==
    /\ fr_phase = "deliver" /\ fr_wire = <<>>
    /\ Len(fr_got) = 2 /\ fr_got[1] = <<>> /\ fr_got[2] # <<>>
    /\ fr_tail # <<>> /\ recv_buf = fr_tail

\* C4: a command that is answered with an error leaves the session alive
\* and the references, the greeting flag, the latches, the replay position
\* and the shared record as they were.
C4_ErrorsChangeNothing ==
    [][ (/\ Processes
         /\ HeadPacket.kind = "object" /\ HeadPacket.type = "command"
         /\ SendsError) =>
            /\ server_pc' = "drain"
            /\ UNCHANGED session_vars
      ]_vars

\* C4 witness: a reference_items was refused while the reference it names
\* is defined.
C4_Witness ==
    /\ Holds(send_buf, build_error("item_not_found"))
    /\ references["A"].defined

\* The packet loop is about to process a well-formed run_simulation.
RunsSimulation ==
    /\ Processes /\ got_greeting
    /\ HeadPacket.kind = "object" /\ HeadPacket.type = "command"
    /\ HeadPacket.command = "run_simulation"
    /\ parse_command_run_simulation(HeadPacket) = Ok

\* C5: a run_simulation is accepted only with the status paused; with any
\* other status it is answered with invalid_status and the time bound, the
\* diagnostics bound, unpause and the simulation_paused latch are not
\* written.
C5_RunOnlyWhenPaused ==
    [][ /\ (RunsSimulation /\ status # "paused") =>
              /\ Sends(build_error("invalid_status"))
              /\ UNCHANGED <<run_until_time, run_until_diagnostics, unpause,
                             emit_simulation_paused>>
        /\ (RunsSimulation /\ status = "paused") => send_buf' = send_buf
        /\ (server_pc # "run_wait" /\ server_pc' = "run_wait") =>
              (RunsSimulation /\ status = "paused")
        /\ Sends(build_response("run_simulation")) => server_pc = "run_wait"
      ]_vars

\* C5 witness: a run_simulation was refused after the simulation finished.
C5_Witness ==
    /\ status = "finished"
    /\ Holds(send_buf, build_error("invalid_status"))

\* The edges of the status named by the lattice.
LatticeEdges ==
    { <<"initializing", "running">>, <<"running", "paused">>,
      <<"paused", "running">>, <<"running", "finished">> }

C7_UnpauseHandshake ==
    [][ /\ (status = "paused" /\ status' = "running") =>
              (unpause /\ ~unpause' /\ run_credit > 0)
        /\ (~unpause /\ unpause') =>
              (RunsSimulation /\ status = "paused" /\ server_pc' = "run_wait")
        /\ (unpause /\ ~unpause') => agent_pc \in {"adv_wait", "step_wait"}
        /\ run_credit \in {0, 1}
        /\ run_credit' \in {0, 1}
      ]_vars

\* C7 witness: the agent was released from a pause by a run_simulation and
\* runs again.
C7_Witness ==
    /\ status = "running" /\ agent_pc = "idle" /\ ~unpause /\ run_credit = 0
    /\ server_pc = "run_wait"

\* C8: when the server can read the status paused, latest_time is the
\* timestamp of the last sample that was recorded and flushed.
C8_LatestTimeIsLastSample ==
    (/\ server_pc \in {"drain", "events"} /\ ~AgentHoldsMutex
     /\ status = "paused" /\ flushed > 0) =>
        latest_time = spool[flushed].t

\* C9: whenever the status is paused every recorded sample has been flushed.
C9_FlushedWhenPaused ==
    status = "paused" =>
        /\ flushed = Len(spool)
        /\ \A i \in 1..Len(spool) : spool[i].t <= latest_time => i <= flushed

\* C9 witness: a pause on the time bound with an incremental sample as the
\* last one recorded.
C9_Witness ==
    /\ status = "paused" /\ cause = "time"
    /\ Len(spool) > 1 /\ ~spool[Len(spool)].complete
    /\ flushed = Len(spool)

\* A step that sends a simulation_paused event.
SendsPausedEvent ==
    \E i \in (Len(send_buf) + 1)..Len(send_buf') :
        /\ ~send_buf'[i].nul
        /\ send_buf'[i].json.type = "event"
        /\ send_buf'[i].json.name = "simulation_paused"

\* C10: a simulation_paused event is sent only with the status paused and
\* after an accepted run_simulation with a time bound or a diagnostics
\* bound; a run without either that pause_simulation stops sends none.
C10_PausedEventOnlyWhenBounded ==
    [][ /\ SendsPausedEvent => (status = "paused" /\ last_run_bounded)
        /\ ~last_run_bounded => ~emit_simulation_paused
      ]_vars

\* C10 witness: the event was sent for a pause on a diagnostic.
C10_Witness ==
    /\ status = "paused" /\ last_run_bounded
    /\ \E t \in Times :
          Holds(send_buf, build_event_simulation_paused(t, "until_diagnostics"))

(***************************************************************************)
(* The program while the link keeps polling successfully, with the         *)
(* scheduling the threads get: a thread that can take its next step takes  *)
(* it (poll returns after 200 ms at the latest; a notified wait returns).  *)
(* The stimulus code is under no obligation to call the agent again.       *)
(***************************************************************************)
\* The texts of a debugger that runs and pauses the simulation.
LiveTexts ==
    {Greeting(0), Command("pause_simulation"),
     RunSimulation(NullTime, {}, "true"), RunSimulation(1, {}, "true"),
     RunSimulation(NullTime, {"assert"}, "true")}

ServerPollLive == ServerPollOk(PacketChunks(LiveTexts))
SimStepAssert == \E emitted \in {{}, {"assert"}} : AgentStep(1, emitted)

\* The steps the server thread takes by itself.
ServerProgress ==
    \/ ServerStart
    \/ ServerPollLive
    \/ ServerDrain
    \/ ServerRunWake
    \/ ServerPauseWake
    \/ ServerEvents

\* The steps the simulation thread takes by itself inside advance and step.
AgentProgress ==
    \/ AgentAdvanceFlush
    \/ AgentAdvancePause
    \/ AgentAdvanceWake
    \/ AgentStepFlush
    \/ AgentStepPause
    \/ AgentStepWake

NextLive ==
    \/ StartDebugging
    \/ SimAdvance
    \/ SimStepAssert
    \/ AgentProgress
    \/ ServerProgress

SpecLive ==
    /\ Init /\ [][NextLive]_vars
    /\ WF_vars(ServerProgress)
    /\ WF_vars(AgentProgress)

\* The agent waits in a pause that the server has been asked to report.
PauseToReport ==
    status = "paused" /\ emit_simulation_paused /\ ~unpause

\* The event for the pause the agent waits in is in the send buffer.
PauseReported ==
    /\ agent_pc \in {"adv_wait", "step_wait"}
    /\ Holds(send_buf, build_event_simulation_paused(latest_time,
           IF agent_pc = "adv_wait" THEN "until_time" ELSE "until_diagnostics"))

\* C11 as stated: a pause after an accepted run with a bound is eventually
\* reported by a simulation_paused event with the cause and the latest_time
\* of that pause, whatever the debugger sends.
C11_PauseReported == PauseToReport ~> PauseReported

\* C11 amended: the pause is eventually reported unless a further
\* run_simulation is accepted first, which rewrites the latch and resumes
\* the agent.
C11_PauseReportedUnlessRun == PauseToReport ~> (PauseReported \/ unpause)

\* C11 witness: a pause on the time bound has been reported.
C11_Witness ==
    /\ agent_pc = "adv_wait" /\ latest_time > 0
    /\ Holds(send_buf, build_event_simulation_paused(latest_time, "until_time"))

\* The packet sent last, where one has been sent since the last poll.
LastSent ==
    IF Len(send_buf) >= 2 THEN send_buf[Len(send_buf) - 1].json ELSE BaseReply

\* The server has just returned from a run_simulation.
RunReturned ==
    /\ server_pc = "drain"
    /\ LastSent = build_response("run_simulation")
    /\ ~unpause

\* C12: an accepted run_simulation, for which the server waits, eventually
\* returns its response, and unpause is false when it does.
C12_RunReturns == (server_pc = "run_wait") ~> RunReturned

\* C12 witness: the run_simulation that released a pause taken in step has
\* returned.
C12_Witness ==
    /\ RunReturned
    /\ cause = "diagnostic" /\ status = "running" /\ run_credit = 0

\* C13: a pause_simulation for which the server had to wait, the status
\* being running, returns with the status paused a response whose time is
\* the time of the last recorded sample.
C13_PauseTimeIsLastSample ==
    [][ (/\ server_pc = "pause_wait" /\ server_pc' = "drain"
         /\ status = "paused" /\ spool # <<>>) =>
            Sends(build_response_pause_simulation(spool[Len(spool)].t))
      ]_vars

(***************************************************************************)
(* The program with a debugger that examines the recorded timeline: the    *)
(* test bench steps, advances and takes snapshots, and the debugger asks   *)
(* for every interval with every setting of collapse and diagnostics.      *)
(***************************************************************************)
Booleans == {"true", "false"}
QueryTexts ==
    {Greeting(0)} \cup
    {QueryInterval(b, e, col, Null, Null, diag) :
        b \in Times, e \in Times, col \in Booleans, diag \in Booleans}
ServerPollQuery == ServerPollOk(PacketChunks(QueryTexts))

NextQuery ==
    \/ StartDebugging
    \/ SimAdvance
    \/ AgentAdvanceFlush
    \/ AgentAdvancePause
    \/ SimStepQuiet
    \/ AgentSnapshot
    \/ ServerStart
    \/ ServerPollQuery
    \/ ServerDrain
    \/ ServerEvents

SpecQuery == Init /\ [][NextQuery]_vars

\* A step that answers a query_interval command with a response.
AnswersQuery ==
    /\ Processes
    /\ HeadPacket.type = "command" /\ HeadPacket.command = "query_interval"
    /\ reply_of(send_buf, send_buf').type = "response"
AnswerSamples == reply_of(send_buf, send_buf').samples

\* The largest time <= begin among the durable samples.
LastTimeAtOrBefore(begin) ==
    CHOOSE t \in {Durable[i].t : i \in 1..Len(Durable)} :
        /\ t <= begin
        /\ \A i \in 1..Len(Durable) : Durable[i].t <= begin => Durable[i].t <= t

RewoundSamples(p) ==
    query_loop(Durable, rewind_to_or_before(Durable, p.interval[1], Len(Durable)),
               p.interval[2], p.collapse = "true", <<>>).samples

\* C15: a query_interval with collapse=true and diagnostics=false that
\* follows the same command with the same durable samples returns the same
\* samples, whatever position the earlier queries left; every such query
\* returns what rewinding returns.
C15_QueryIdempotent ==
    [][ (/\ AnswersQuery
         /\ HeadPacket.collapse = "true" /\ HeadPacket.diagnostics = "false")
        => /\ AnswerSamples = RewoundSamples(HeadPacket)
           /\ (query_log.valid /\ query_log.packet = HeadPacket
                  /\ query_log.flushed = flushed)
              => AnswerSamples = query_log.samples ]_vars

\* The same query was answered twice, the second time from the position
\* the fast path accepts, with a later sample recorded.
C15_Witness ==
    /\ query_log.again
    /\ query_log.packet.collapse = "true"
    /\ query_log.packet.diagnostics = "false"
    /\ query_log.flushed = flushed
    /\ player_pos > 0 /\ player_pos < flushed
    /\ spool[player_pos].t = query_log.packet.interval[1]
    /\ spool[player_pos + 1].t > query_log.packet.interval[1]
    /\ query_log.samples = <<query_log.packet.interval[1]>>

\* The command takes the fast path: nothing is rewound.
FastPath(p) ==
    /\ p.collapse = "true" /\ p.diagnostics # "true"
    /\ player_pos >= 1 /\ player_pos < Len(Durable)
    /\ Durable[player_pos].t = p.interval[1]
    /\ Durable[player_pos + 1].t > p.interval[1]

\* The position of the last recorded sample whose time is at most t, none
\* being 0.
LastAtOrBefore(t) ==
    LET at == {i \in 1..Len(Durable) : Durable[i].t <= t}
    IN IF at = {} THEN 0 ELSE CHOOSE i \in at : \A j \in at : j <= i

\* The times of the recorded samples at positions i..k; with collapse only
\* of the last sample of each time.
RECURSIVE RecordedTimes(_, _, _)
RecordedTimes(i, k, collapse) ==
    IF i > k THEN <<>>
    ELSE (IF ~collapse \/ i = k \/ Durable[i + 1].t # Durable[i].t
          THEN <<Durable[i].t>> ELSE <<>>)
         \o RecordedTimes(i + 1, k, collapse)

\* C26: a query_interval that does not take the fast path returns first the
\* last recorded sample of the largest recorded time <= begin, then the
\* recorded samples after it in recording order up to and including the last
\* one whose time is <= end (with collapse, the last sample of each time),
\* and leaves the player at the last sample returned.
C26_FromRewindToEnd ==
    [][ (AnswersQuery /\ ~FastPath(HeadPacket)) =>
          LET first == LastAtOrBefore(HeadPacket.interval[1])
              upto == LastAtOrBefore(HeadPacket.interval[2])
              last == IF upto > first THEN upto ELSE first
          IN /\ first >= 1
             /\ AnswerSamples =
                    RecordedTimes(first, last, HeadPacket.collapse = "true")
             /\ AnswerSamples[1] = LastTimeAtOrBefore(HeadPacket.interval[1])
             /\ player_pos' = last ]_vars

\* A query that rewinds was answered with a sample before begin, two samples
\* of one time and a last sample at end.
C26_Witness ==
    /\ query_log.valid
    /\ query_log.packet.collapse = "false"
    /\ Len(query_log.samples) = 3
    /\ query_log.samples[1] < query_log.packet.interval[1]
    /\ query_log.samples[2] = query_log.samples[3]
    /\ query_log.samples[3] = query_log.packet.interval[2]

\* The part of C27 that does not depend on which of several samples of one
\* time the player rewinds to: with collapse the times of the samples of a
\* response increase strictly, without it they do not decrease.
C27_TimesOrdered ==
    [][ AnswersQuery =>
          \A i \in 1..(Len(AnswerSamples) - 1) :
              IF HeadPacket.collapse = "true"
              THEN AnswerSamples[i] < AnswerSamples[i + 1]
              ELSE AnswerSamples[i] <= AnswerSamples[i + 1] ]_vars

(***************************************************************************)
(* The program with a debugger that binds, rebinds and erases references   *)
(* and queries through them.                                               *)
(***************************************************************************)
RefTexts ==
    {Greeting(0), Command("get_simulation_status"), Command("pause_simulation"),
     Command("list_scopes"), RunSimulation(NullTime, {}, "true"),
     ReferenceItems("A", "array", <<Desig1("clk")>>),
     ReferenceItems("A", "array", <<Desig3("mem", 1, 0), Desig1("clk")>>),
     ReferenceItems("A", "array", <<>>),
     ReferenceItems("A", Null, <<>>),
     ReferenceItems("A", "array", <<Desig1("nope")>>),
     ReferenceItems("A", "array", <<Desig1("clk"), Desig1("mem")>>),
     [ReferenceItems("A", "array", <<Desig1("clk")>>) EXCEPT !.extra = TRUE],
     ReferenceItems("B", "array", <<Desig1("clk")>>),
     ReferenceItems("B", Null, <<>>),
     ReferenceItems("B", "array", <<Desig1("clk"), Desig3("mem", 0, 2)>>),
     QueryInterval(0, 0, "true", "A", "base64(u32)", "false"),
     QueryInterval(0, 0, "true", "A", Null, "false"),
     QueryInterval(0, 0, "true", "B", "base64(u32)", "false"),
     QueryInterval(0, 0, "true", "C", "base64(u32)", "false")}
ServerPollRef == ServerPollOk(PacketChunks(RefTexts))

\* The stimulus code of a test bench that steps once, at time zero, and
\* advances from there on.
SimFirstStep == status = "initializing" /\ AgentStep(1, {})

NextRef ==
    \/ StartDebugging
    \/ SimAdvance
    \/ AgentAdvanceFlush
    \/ AgentAdvancePause
    \/ AgentAdvanceWake
    \/ SimFirstStep
    \/ ServerStart
    \/ ServerPollRef
    \/ ServerDrain
    \/ ServerRunWake
    \/ ServerPauseWake
    \/ ServerEvents

SpecRef == Init /\ [][NextRef]_vars

\* A step that processes a command of the given name after the greeting.
ProcessesCommand(name) ==
    /\ Processes /\ got_greeting
    /\ HeadPacket.kind = "object" /\ HeadPacket.type = "command"
    /\ HeadPacket.command = name

\* A query_interval that names a reference and is well-formed otherwise.
QueryThroughReference(p) ==
    /\ p.items_kind = "string" /\ p.items_ref # ""
    /\ Len(p.interval) = 2 /\ p.interval[1] \in Times /\ p.interval[2] \in Times
    /\ IsBoolean(p.collapse) /\ IsBoolean(p.diagnostics)
    /\ p.encoding \in {Null, "base64(u32)"}
    /\ ~p.extra

\* The last answered reference_items of the name bound designators.
DefinedByLog(name) == name \in RefNames /\ ref_log[name].defined

\* C16, its first half: a query_interval through the reference R is
\* answered with invalid_reference exactly when no answered reference_items
\* has bound R since the last one that erased it.
C16_InvalidReferenceIffUndefined ==
    [][ (ProcessesCommand("query_interval") /\ QueryThroughReference(HeadPacket))
        => (Sends(build_error("invalid_reference"))
              <=> ~DefinedByLog(HeadPacket.items_ref)) ]_vars

\* C16 as stated: a query_interval through the reference R is answered with
\* invalid_reference if and only if R is not defined, and with a response
\* otherwise.
C16_ErrorOrResponse ==
    [][ (ProcessesCommand("query_interval") /\ QueryThroughReference(HeadPacket))
        => IF DefinedByLog(HeadPacket.items_ref)
           THEN reply_of(send_buf, send_buf').type = "response"
           ELSE Sends(build_error("invalid_reference")) ]_vars

\* The designators a reference holds, read off its variables.
DesignatorsOf(reference) ==
    [i \in 1..Len(reference.variables) |->
        [name |-> reference.variables[i].name,
         first |-> reference.variables[i].first_index,
         last |-> reference.variables[i].last_index]]
Plain(designators) ==
    [i \in 1..Len(designators) |->
        [name |-> designators[i].name, first |-> designators[i].first,
         last |-> designators[i].last]]

\* Every name holds what its last answered reference_items bound.
BindingsHold ==
    \A n \in RefNames :
        /\ references[n].defined = ref_log[n].defined
        /\ DesignatorsOf(references[n]) = Plain(ref_log[n].designators)

\* A step that answers reference_items with a response.
AnswersReferenceItems ==
    /\ ProcessesCommand("reference_items")
    /\ Sends(build_response("reference_items"))

\* C17: an answered reference_items with an array leaves the name holding
\* exactly the designators of the array, in order; one with null leaves the
\* name undefined; every other name keeps what it held; and wherever
\* the server is alive to process a command, every name holds what its last
\* answered reference_items bound, never a part of it.
C17_ReferenceReplaced ==
    [][ /\ AnswersReferenceItems =>
            /\ IF HeadPacket.items_kind = Null
               THEN references'[HeadPacket.reference] = NoRef
               ELSE /\ references'[HeadPacket.reference].defined
                    /\ DesignatorsOf(references'[HeadPacket.reference])
                          = Plain(HeadPacket.items)
            /\ \A n \in RefNames \ {HeadPacket.reference} :
                  references'[n] = references[n]
        /\ server_pc' # "aborted" => BindingsHold' ]_vars

\* The name A was rebound, from one designator to two, beside a defined B.
C17_Witness ==
    /\ LastSent = build_response("reference_items")
    /\ ref_log["A"].designators = <<Desig3("mem", 1, 0), Desig1("clk")>>
    /\ Len(references["A"].variables) = 2
    /\ references["A"].variables[1].name = "mem"
    /\ references["B"].defined

\* C18: a defined reference keeps its designators across every step but
\* one that processes a reference_items of its own name and answers it with
\* a response (or ends the process): other commands, reference_items of
\* other names and reference_items of its name answered with an error
\* leave it as it was.
C18_ReferencePersists ==
    [][ \A n \in RefNames :
          (/\ references[n].defined
           /\ ~(/\ ProcessesCommand("reference_items")
                /\ HeadPacket.reference = n
                /\ (Sends(build_response("reference_items"))
                      \/ server_pc' = "aborted")))
          => references'[n] = references[n] ]_vars

\* A reference_items of the name A was answered with wrong_item_type while
\* A held two designators.
C18_Witness ==
    /\ LastSent = build_error("wrong_item_type")
    /\ references["A"].defined
    /\ Len(references["A"].variables) = 2
    /\ ref_log["A"].designators = <<Desig3("mem", 1, 0), Desig1("clk")>>

(***************************************************************************)
(* The readout of item values.  A chunk (chunk_t, 32 bits) is the set of   *)
(* the positions of its bits that are 1; a byte is a number in 0..255.     *)
(* The backing store of a variable holds chunks words per index.           *)
(***************************************************************************)
MaxIndex == 1
MaxBytes == 3

ChunkBits == 32
AllOnes == 0..(ChunkBits - 1)

\* x >> n on a chunk.
shr(x, n) == {i - n : i \in {j \in x : j >= n}}

\* The mask that keeps every bit of the last chunk.
padding_mask_whole(width) == AllOnes

\* chunk_t(-1) >> (sizeof(chunk_t) * 8 - (var.width % (sizeof(chunk_t) * 8)))
padding_mask(width) == shr(AllOnes, ChunkBits - (width % ChunkBits))

\* The loop over the indices of one variable: the chunks of the index are
\* copied, the last one is masked where the width is not a multiple of the
\* chunk size, and the index moves towards last_index.
RECURSIVE read_variable(_, _, _, _)
read_variable(store, var, index, values) ==
    LET copied == SubSeq(store, var.chunks * index + 1, var.chunks * (index + 1))
        masked == IF var.width % ChunkBits # 0
                  THEN [copied EXCEPT ![var.chunks] = @ \cap padding_mask(var.width)]
                  ELSE copied
        out == values \o masked
    IN IF index = var.last_index THEN out
       ELSE read_variable(store, var,
                IF var.first_index < var.last_index THEN index + 1 ELSE index - 1,
                out)

\* 2^n.
RECURSIVE pow2(_)
pow2(n) == IF n = 0 THEN 1 ELSE 2 * pow2(n - 1)

\* The number a set of bit positions below 8 stands for.
RECURSIVE bits_value(_)
bits_value(bits) ==
    IF bits = {} THEN 0
    ELSE LET i == CHOOSE j \in bits : TRUE IN pow2(i) + bits_value(bits \ {i})

\* The four bytes of a chunk in the order of the memory of the host:
\* (const char *)&*item_values.begin().
chunk_bytes(chunk, little) ==
    LET byte(k) == bits_value(shr(chunk, 8 * k) \cap (0..7))
    IN IF little THEN <<byte(0), byte(1), byte(2), byte(3)>>
       ELSE <<byte(3), byte(2), byte(1), byte(0)>>

RECURSIVE values_bytes(_, _)
values_bytes(values, little) ==
    IF values = <<>> THEN <<>>
    ELSE chunk_bytes(Head(values), little) \o values_bytes(Tail(values), little)

\* data[index] converted to int: char is signed in some builds and unsigned
\* in others.
char_value(byte, signed) == IF signed /\ byte >= 128 THEN byte - 256 ELSE byte

alphabet ==
    <<
       "A", "B", "C", "D", "E", "F", "G", "H", "I", "J", "K", "L", "M",
       "N", "O", "P", "Q", "R", "S", "T", "U", "V", "W", "X", "Y", "Z",
       "a", "b", "c", "d", "e", "f", "g", "h", "i", "j", "k", "l", "m",
       "n", "o", "p", "q", "r", "s", "t", "u", "v", "w", "x", "y", "z",
       "0", "1", "2", "3", "4", "5", "6", "7", "8", "9", "+", "/"
    >>

\* (chunk >> n) & 0x3f on the low 24 bits of the uint32_t chunk.
sextet(chunk, n) == ((chunk % pow2(24)) \div pow2(n)) % 64

\* The conversion of the int sum to uint32_t, kept to its low 24 bits.
to_chunk(sum) == (sum + pow2(25)) % pow2(24)

\* base64_encode(data, size) from position index (counted from 1).
RECURSIVE base64_from(_, _, _, _)
base64_from(data, index, signed, out) ==
    LET size == Len(data)
        d(i) == char_value(data[index + i], signed)
    IN IF index + 2 <= size
       THEN LET chunk == to_chunk(d(0) * 65536 + d(1) * 256 + d(2))
            IN base64_from(data, index + 3, signed,
                   out \o <<alphabet[sextet(chunk, 18) + 1],
                             alphabet[sextet(chunk, 12) + 1],
                             alphabet[sextet(chunk, 6) + 1],
                             alphabet[sextet(chunk, 0) + 1]>>)
       ELSE IF index + 1 = size
       THEN LET chunk == to_chunk(d(0) * 65536 + d(1) * 256)
            IN out \o <<alphabet[sextet(chunk, 18) + 1],
                         alphabet[sextet(chunk, 12) + 1],
                         alphabet[sextet(chunk, 6) + 1], "=">>
       ELSE IF index = size
       THEN LET chunk == to_chunk(d(0) * 65536)
            IN out \o <<alphabet[sextet(chunk, 18) + 1],
                         alphabet[sextet(chunk, 12) + 1], "=", "=">>
       ELSE out

base64_encode(data, signed) == base64_from(data, 1, signed, <<>>)

\* The inputs: the variables (width, chunks as perform_reference_items
\* computes them, and the two indices), what the backing store can hold,
\* and the bytes.
ReadWidths == {1, 8, 16, 32, 33, 64}
ReadVariables ==
    {[width |-> w, chunks |-> (w + ChunkBits - 1) \div ChunkBits,
      first_index |-> f, last_index |-> l] :
        w \in ReadWidths, f \in 0..MaxIndex, l \in 0..MaxIndex}
StoreChunks == {{}, AllOnes, {15}}
ByteValues == {0, 127, 128, 255}

\* Sequences of exactly n of the elements.
SeqsOfLen(elems, n) == {q \in SeqsUpTo(elems, n) : Len(q) = n}

InitReadout ==
    /\ char_signed \in BOOLEAN
    /\ little_endian \in BOOLEAN
    /\ item_values = <<>>
    /\ encoded = <<>>
    /\ enc_reference = <<>>
    /\ \/ /\ enc_pc = "variable"
          /\ enc_var \in ReadVariables
          /\ enc_store \in SeqsOfLen(StoreChunks, enc_var.chunks * (MaxIndex + 1))
          /\ enc_bytes = <<>>
       \/ /\ enc_pc = "bytes"
          /\ enc_var = NoVariable
          /\ enc_store = <<>>
          /\ enc_bytes \in SeqsUpTo(ByteValues, MaxBytes)

InitEncode ==
    InitProgram /\ InitFraming /\ InitReadout /\ InitBesideReadoutOff

\* The readout of the variable into item_values, and the bytes handed to
\* base64_encode.
ReadOut ==
    /\ enc_pc = "variable"
    /\ item_values' = read_variable(enc_store, enc_var, enc_var.first_index, <<>>)
    /\ enc_bytes' = values_bytes(item_values', little_endian)
    /\ enc_pc' = "bytes"
    /\ UNCHANGED <<enc_var, enc_store, encoded, char_signed, little_endian,
                   enc_reference>>
    /\ UNCHANGED <<link_vars, server_vars, shared_vars, agent_vars, hist_vars,
                   fr_vars, beside_enc>>

\* The call of base64_encode.
Encode ==
    /\ enc_pc = "bytes"
    /\ encoded' = base64_encode(enc_bytes, char_signed)
    /\ enc_pc' = "done"
    /\ UNCHANGED <<enc_var, enc_store, item_values, enc_bytes, char_signed,
                   little_endian, enc_reference>>
    /\ UNCHANGED <<link_vars, server_vars, shared_vars, agent_vars, hist_vars,
                   fr_vars, beside_enc>>

NextEncode == ReadOut \/ Encode

SpecEncode == InitEncode /\ [][NextEncode]_vars

\* The indices a readout visits, in order.
IndicesRead(var) ==
    LET n == IF var.first_index <= var.last_index
             THEN var.last_index - var.first_index + 1
             ELSE var.first_index - var.last_index + 1
    IN [j \in 1..n |-> IF var.first_index <= var.last_index
                       THEN var.first_index + (j - 1)
                       ELSE var.first_index - (j - 1)]

\* C19: after the readout of a variable of width w, the chunks of every
\* index read follow in the order read; where w is not a multiple of 32 the
\* last chunk of every index holds the bits of the store below w mod 32 and
\* none at or above it, whatever the store holds there; every other chunk,
\* and every chunk where w is a multiple of 32, is the chunk of the store.
C19_MaskLaw ==
    (enc_pc \in {"bytes", "done"} /\ enc_var # NoVariable) =>
        LET ix == IndicesRead(enc_var)
            w == enc_var.width % ChunkBits
        IN /\ Len(item_values) = Len(ix) * enc_var.chunks
           /\ \A j \in 1..Len(ix) : \A c \in 1..enc_var.chunks :
                 LET out == item_values[(j - 1) * enc_var.chunks + c]
                     raw == enc_store[ix[j] * enc_var.chunks + c]
                 IN IF c = enc_var.chunks /\ w # 0
                    THEN /\ \A i \in out : i < w
                         /\ out = {i \in raw : i < w}
                    ELSE out = raw

\* A variable of 33 bits was read from index 1 down to index 0 out of a
\* store with every padding bit set.
C19_Witness ==
    /\ enc_pc = "bytes"
    /\ enc_var.width = 33
    /\ enc_var.first_index = 1 /\ enc_var.last_index = 0
    /\ enc_store = <<AllOnes, AllOnes, AllOnes, AllOnes>>
    /\ item_values = <<AllOnes, {0}, AllOnes, {0}>>

\* The standard Base64 encoding of a byte sequence, every byte unsigned.
RECURSIVE StandardBase64(_)
StandardBase64(bytes) ==
    LET sym(v, n) == alphabet[((v \div pow2(n)) % 64) + 1]
    IN IF bytes = <<>> THEN <<>>
       ELSE IF Len(bytes) = 1
       THEN LET v == bytes[1] * 65536
            IN <<sym(v, 18), sym(v, 12), "=", "=">>
       ELSE IF Len(bytes) = 2
       THEN LET v == bytes[1] * 65536 + bytes[2] * 256
            IN <<sym(v, 18), sym(v, 12), sym(v, 6), "=">>
       ELSE LET v == bytes[1] * 65536 + bytes[2] * 256 + bytes[3]
            IN <<sym(v, 18), sym(v, 12), sym(v, 6), sym(v, 0)>>
               \o StandardBase64(SubSeq(bytes, 4, Len(bytes)))

\* C20 as stated: base64_encode returns the standard Base64 encoding of the
\* bytes, every byte taken as unsigned, in 4 * ceil(n / 3) characters.
C20_StandardBase64 ==
    enc_pc = "done" =>
        /\ encoded = StandardBase64(enc_bytes)
        /\ Len(encoded) = 4 * ((Len(enc_bytes) + 2) \div 3)

\* C20, what holds in every build: the output has 4 * ceil(n / 3)
\* characters, and it is the standard encoding where char is unsigned or
\* no byte after the first of a group is above 127.
C20_StandardWhereUnsigned ==
    enc_pc = "done" =>
        /\ Len(encoded) = 4 * ((Len(enc_bytes) + 2) \div 3)
        /\ (~char_signed
              \/ \A i \in 1..Len(enc_bytes) : (i % 3 = 1 \/ enc_bytes[i] < 128))
           => encoded = StandardBase64(enc_bytes)

(***************************************************************************)
(* The readout of a whole reference: item_values is cleared, the variables *)
(* are read one after the other, and the chunks are encoded.  The design   *)
(* may leave other bits in the padding of its values between two readouts. *)
(***************************************************************************)
MaxVars == 2

\* The loop over the variables of the reference; each element holds the
\* variable and the backing store its data points to.
RECURSIVE read_reference(_, _)
read_reference(reference, values) ==
    IF reference = <<>> THEN values
    ELSE read_reference(Tail(reference),
             read_variable(Head(reference).store, Head(reference).var,
                           Head(reference).var.first_index, values))

\* The variables of the references read, with a backing store filled with
\* one chunk value.
RefWidths == {1, 33}
RefVariables == {v \in ReadVariables : v.width \in RefWidths}
RefStoreChunks == {AllOnes, {15}}
RefElements ==
    {[var |-> v, store |-> [i \in 1..(v.chunks * (MaxIndex + 1)) |-> c]] :
        v \in RefVariables, c \in RefStoreChunks}

InitReadoutReference ==
    /\ char_signed \in BOOLEAN
    /\ little_endian \in BOOLEAN
    /\ enc_pc = "reference"
    /\ enc_reference \in SeqsUpTo(RefElements, MaxVars)
    /\ enc_var = NoVariable
    /\ enc_store = <<>>
    /\ item_values = <<>>
    /\ enc_bytes = <<>>
    /\ encoded = <<>>

InitEncodeReference ==
    InitProgram /\ InitFraming /\ InitReadoutReference /\ InitBesideReadoutOff

\* The readout of the reference into item_values.
ReadOutReference ==
    /\ enc_pc = "reference"
    /\ item_values' = read_reference(enc_reference, <<>>)
    /\ enc_bytes' = values_bytes(item_values', little_endian)
    /\ enc_pc' = "bytes"
    /\ UNCHANGED <<enc_var, enc_store, encoded, char_signed, little_endian,
                   enc_reference>>
    /\ UNCHANGED <<link_vars, server_vars, shared_vars, agent_vars, hist_vars,
                   fr_vars, beside_enc>>

\* The store of a variable with its padding bits set or cleared.
with_padding(element, set) ==
    LET v == element.var
        w == v.width % ChunkBits
    IN [element EXCEPT !.store =
           [i \in 1..Len(element.store) |->
               IF w # 0 /\ i % v.chunks = 0
               THEN {b \in element.store[i] : b < w}
                    \cup (IF set THEN {b \in AllOnes : b >= w} ELSE {})
               ELSE element.store[i]]]

\* The same sample is read out and encoded again, at the same position of
\* the player, after the design has left other bits in the padding.
Reencode ==
    /\ enc_pc = "done" /\ enc_reference # <<>>
    /\ \E set \in BOOLEAN :
          enc_reference' = [i \in 1..Len(enc_reference) |->
                               with_padding(enc_reference[i], set)]
    /\ item_values' = read_reference(enc_reference', <<>>)
    /\ enc_bytes' = values_bytes(item_values', little_endian)
    /\ encoded' = base64_encode(enc_bytes', char_signed)
    /\ UNCHANGED <<enc_pc, enc_var, enc_store, char_signed, little_endian>>
    /\ UNCHANGED <<link_vars, server_vars, shared_vars, agent_vars, hist_vars,
                   fr_vars, beside_enc>>

NextEncodeReference == ReadOutReference \/ Encode \/ Reencode

SpecEncodeReference == InitEncodeReference /\ [][NextEncodeReference]_vars

\* The number of indices a variable is read at.
IndexCount(var) == Len(IndicesRead(var))

\* The total bit count of the values read.
RECURSIVE TotalBits(_)
TotalBits(reference) ==
    IF reference = <<>> THEN 0
    ELSE Head(reference).var.width * IndexCount(Head(reference).var)
         + TotalBits(Tail(reference))

\* The number of chunks read.
RECURSIVE TotalChunks(_)
TotalChunks(reference) ==
    IF reference = <<>> THEN 0
    ELSE Head(reference).var.chunks * IndexCount(Head(reference).var)
         + TotalChunks(Tail(reference))

\* The number of bytes a Base64 text decodes to.
DecodedLength(text) ==
    3 * (Len(text) \div 4)
      - Cardinality({i \in 1..Len(text) : text[i] = "="})

\* C21 as stated: the item_values of a reference with total bit count B
\* decode to ceil(B / 32) * 4 bytes, and encoding the reference again at
\* the same position yields the same text.
C21_BytesOfTotalBits ==
    [][ (enc_pc' = "done" /\ enc_reference # <<>>) =>
          /\ DecodedLength(encoded')
                = 4 * ((TotalBits(enc_reference) + ChunkBits - 1) \div ChunkBits)
          /\ (enc_pc = "done" => encoded' = encoded) ]_vars

\* C21 as the code has it: the item_values decode to four bytes for every
\* chunk read, ceil(width / 32) chunks for every index of every variable,
\* and encoding the reference again at the same position yields the same
\* text, whatever the padding holds.
C21_BytesOfChunksRead ==
    [][ (enc_pc' = "done" /\ enc_reference # <<>>) =>
          /\ DecodedLength(encoded') = 4 * TotalChunks(enc_reference)
          /\ (enc_pc = "done" => encoded' = encoded) ]_vars

\* Two variables of one bit each were read and encoded twice: eight bytes.
C21_Witness ==
    /\ enc_pc = "done"
    /\ Len(enc_reference) = 2
    /\ enc_reference[1].var.width = 1 /\ enc_reference[2].var.width = 1
    /\ enc_reference[1].var.first_index = enc_reference[1].var.last_index
    /\ enc_reference[2].var.first_index = enc_reference[2].var.last_index
    /\ enc_reference[1].store[1] = {}
    /\ DecodedLength(encoded) = 8

(***************************************************************************)
(* list_scopes on its own.  A std::string is the sequence of its           *)
(* characters; the names of the items are the keys of debug_items.table,   *)
(* a std::map, which is enumerated in the order of the strings.            *)
(***************************************************************************)
MaxItems == 3

Space == " "
\* The characters of the names, in the order of their codes.
CharCodes == <<Space, "a", "b", "x">>
code_of(c) == CHOOSE i \in 1..Len(CharCodes) : CharCodes[i] = c

\* std::string::find(' '): the first position of a space, counted from 1;
\* 0 for npos.
RECURSIVE find_space_from(_, _)
find_space_from(str, i) ==
    IF i > Len(str) THEN 0
    ELSE IF str[i] = Space THEN i
    ELSE find_space_from(str, i + 1)
find_space(str) == find_space_from(str, 1)

\* std::string::rfind(' '): the last position of a space, counted from 1;
\* 0 for npos.
RECURSIVE rfind_space_from(_, _)
rfind_space_from(str, i) ==
    IF i = 0 THEN 0
    ELSE IF str[i] = Space THEN i
    ELSE rfind_space_from(str, i - 1)
rfind_space(str) == rfind_space_from(str, Len(str))

\* item.first.substr(0, pos) where a space was found, "" where none was.
item_scope_of(name) ==
    IF rfind_space(name) # 0 THEN SubSeq(name, 1, rfind_space(name) - 1) ELSE <<>>

\* The parent taken up to the first space of the scope.
parent_of_first_space(item_scope) == SubSeq(item_scope, 1, find_space(item_scope) - 1)

\* item_scope.substr(0, item_scope.rfind(' ')), for a scope with a space.
parent_of(item_scope) == SubSeq(item_scope, 1, rfind_space(item_scope) - 1)

\* operator< of std::string.
RECURSIVE str_less(_, _)
str_less(a, b) ==
    IF b = <<>> THEN FALSE
    ELSE IF a = <<>> THEN TRUE
    ELSE IF Head(a) # Head(b) THEN code_of(Head(a)) < code_of(Head(b))
    ELSE str_less(Tail(a), Tail(b))

\* The keys of a std::map in the order of its enumeration.
RECURSIVE in_order(_)
in_order(keys) ==
    IF keys = {} THEN <<>>
    ELSE LET first == CHOOSE k \in keys : \A other \in keys \ {k} : str_less(k, other)
         IN <<first>> \o in_order(keys \ {first})

\* " invalid": cannot appear as a scope name.
InvalidScope == <<Space, "invalid">>

\* The loop of server::perform_list_scopes over the items in order; the
\* result maps each scope kept to whether debug_scopes holds a record of
\* it.
RECURSIVE list_scopes_loop(_, _, _, _, _, _)
list_scopes_loop(items, all, scope, records, current_scope, scopes) ==
    IF items = <<>> THEN scopes
    ELSE LET item_scope == item_scope_of(Head(items))
             keep == \/ all
                     \/ (scope = <<>> /\ find_space(item_scope) = 0)
                     \/ (scope # <<>> /\ find_space(item_scope) # 0
                          /\ parent_of(item_scope) = scope)
         IN IF item_scope = current_scope
            THEN list_scopes_loop(Tail(items), all, scope, records, current_scope,
                                  scopes)
            ELSE list_scopes_loop(Tail(items), all, scope, records, item_scope,
                     IF keep
                     THEN [k \in DOMAIN scopes \cup {item_scope} |->
                              IF k = item_scope THEN item_scope \in records
                              ELSE scopes[k]]
                     ELSE scopes)

\* server::perform_list_scopes.
perform_list_scopes(all, scope, table, records) ==
    list_scopes_loop(in_order(table), all, scope, records, InvalidScope, <<>>)

\* The description of one scope in the response.
scope_desc(name, recorded) ==
    [ scope |-> name, type |-> "module",
      definition_name |-> IF recorded THEN "<module_name>" ELSE Null,
      definition_src |-> IF recorded THEN "<src>" ELSE Null,
      definition_attributes |-> IF recorded THEN {"src"} ELSE {},
      instantiation_src |-> IF recorded THEN "<src>" ELSE Null,
      instantiation_attributes |-> IF recorded THEN {"src"} ELSE {} ]

\* server::build_response_list_scopes: the descriptions in the order of
\* the map.
build_response_list_scopes(scopes) ==
    LET keys == in_order(DOMAIN scopes)
    IN [i \in 1..Len(keys) |-> scope_desc(keys[i], scopes[keys[i]])]

\* The names a design can hold, the scopes that can have a record, and
\* the scope argument.
DesignNames ==
    { <<"x">>, <<"a", Space, "x">>, <<"a", Space, "b">>,
      <<"a", Space, "b", Space, "x">>, <<"b", Space, "x">>,
      <<"a", Space, "b", Space, "a", Space, "x">>,
      <<Space, "x">>, <<"a", Space, Space, "x">> }
DesignTables == {t \in SUBSET DesignNames : Cardinality(t) <= MaxItems}
ScopeRecords == SUBSET {<<"a">>, <<"a", Space, "b">>}
ScopeArguments ==
    { <<>>, <<"a">>, <<"b">>, <<"a", Space, "b">>, <<"a", Space>>, <<"x">> }

InitScopes ==
    /\ sc_pc = "request"
    /\ sc_items \in DesignTables
    /\ sc_scopes \in ScopeRecords
    /\ \/ sc_all = TRUE /\ sc_scope = <<>>
       \/ sc_all = FALSE /\ sc_scope \in ScopeArguments
    /\ sc_response = <<>>

InitListScopes ==
    InitProgram /\ InitFraming /\ InitScopes /\ InitBesideScopesOff

\* The list_scopes branch of process_packet after the arguments were
\* parsed.
ListScopes ==
    /\ sc_pc = "request"
    /\ sc_response' = build_response_list_scopes(
                          perform_list_scopes(sc_all, sc_scope, sc_items, sc_scopes))
    /\ sc_pc' = "done"
    /\ UNCHANGED <<sc_items, sc_scopes, sc_all, sc_scope>>
    /\ UNCHANGED <<link_vars, server_vars, shared_vars, agent_vars, hist_vars,
                   fr_vars, beside_scope>>

NextListScopes == ListScopes

SpecListScopes == InitListScopes /\ [][NextListScopes]_vars

\* The scope an item is in: its name up to its last space.
HasSpace(str) == \E i \in 1..Len(str) : str[i] = Space
UpToLastSpace(str) ==
    LET last == CHOOSE i \in 1..Len(str) :
                    str[i] = Space /\ \A j \in (i + 1)..Len(str) : str[j] # Space
    IN SubSeq(str, 1, last - 1)
EnclosingScope(name) == IF HasSpace(name) THEN UpToLastSpace(name) ELSE <<>>
EnclosingScopes == {EnclosingScope(n) : n \in sc_items}

\* The scopes a request asks for.
RequestedScopes ==
    IF sc_all THEN EnclosingScopes
    ELSE IF sc_scope = <<>> THEN {s \in EnclosingScopes : ~HasSpace(s)}
    ELSE {s \in EnclosingScopes : HasSpace(s) /\ UpToLastSpace(s) = sc_scope}

\* C22: list_scopes returns all the scopes of the items when scope is null,
\* those without a space when scope is empty, and otherwise those whose
\* name up to its last space is the scope asked for; each one once; and a
\* scope without a record comes with a null name, null sources and no
\* attributes.
C22_ListScopes ==
    sc_pc = "done" =>
        /\ {sc_response[i].scope : i \in 1..Len(sc_response)} = RequestedScopes
        /\ \A i, j \in 1..Len(sc_response) :
              sc_response[i].scope = sc_response[j].scope => i = j
        /\ \A i \in 1..Len(sc_response) :
              sc_response[i].scope \notin sc_scopes =>
                  /\ sc_response[i].definition_name = Null
                  /\ sc_response[i].definition_src = Null
                  /\ sc_response[i].instantiation_src = Null
                  /\ sc_response[i].definition_attributes = {}
                  /\ sc_response[i].instantiation_attributes = {}

\* The scope "a b" was asked for in a design with items in "a", "a b" and
\* "a b a": the one scope returned is "a b a", which has no record.
C22_Witness ==
    /\ sc_pc = "done"
    /\ sc_scope = <<"a", Space, "b">>
    /\ sc_items = { <<"a", Space, "x">>, <<"a", Space, "b", Space, "x">>,
                    <<"a", Space, "b", Space, "a", Space, "x">> }
    /\ Len(sc_response) = 1
    /\ sc_response[1].scope = <<"a", Space, "b", Space, "a">>
    /\ sc_response[1].definition_name = Null

(***************************************************************************)
(* Shutdown: the stimulus code destroys the agent while the server thread  *)
(* runs.  The server thread takes its steps as long as poll returns true;  *)
(* whether poll ever returns false is up to the other end of the link.     *)
(***************************************************************************)
NextShutdown ==
    \/ StartDebugging
    \/ SimAdvance
    \/ SimStepAssert
    \/ AgentProgress
    \/ AgentDestroy
    \/ AgentJoin
    \/ ServerPollFail
    \/ ServerProgress

SpecShutdown ==
    /\ Init /\ [][NextShutdown]_vars
    /\ WF_vars(ServerProgress)
    /\ WF_vars(AgentProgress)
    /\ WF_vars(AgentJoin)

\* C23 as stated: once the destructor has set the status to finished and
\* waits in join, the server thread ends and the join returns.
C23_JoinReturns == (agent_pc = "joining") ~> (agent_pc = "destroyed")

\* What holds: the join returns once poll has returned false, and only then.
C23_JoinReturnsOnLinkError ==
    /\ (agent_pc = "joining" /\ server_pc = "exited") ~> (agent_pc = "destroyed")
    /\ [][agent_pc = "joining" /\ agent_pc' = "destroyed" => server_pc = "exited"]_vars

(***************************************************************************)
(* tcp_link.  A descriptor is modelled by the identity of what it refers   *)
(* to: -1 for none, the number of the listener for listenfd, the number of *)
(* the accepted client for connectfd.  A byte of the receive buffer        *)
(* carries the client it came from.                                        *)
(***************************************************************************)
MaxClients == 3
MaxTcpBuf == 3

NoFd == 0 - 1

\* The state of a tcp_link with the operating system's side of it.
TcpLink ==
    [listenfd |-> listenfd, connectfd |-> connectfd,
     recv_buf |-> tcp_recv_buf, send_buf |-> tcp_send_buf,
     open |-> tcp_open, listeners |-> tcp_listeners, clients |-> tcp_clients]

\* tcp_link::close without recv_buf.erase().
tcp_close_keeps_recv(l) ==
    [l EXCEPT !.send_buf = <<>>,
              !.open = IF l.connectfd # NoFd THEN l.open \ {l.connectfd} ELSE l.open,
              !.connectfd = NoFd]

\* tcp_link::close.
tcp_close(l) ==
    [l EXCEPT !.recv_buf = <<>>,
              !.send_buf = <<>>,
              !.open = IF l.connectfd # NoFd THEN l.open \ {l.connectfd} ELSE l.open,
              !.connectfd = NoFd]

\* tcp_link::closeall.
tcp_closeall(l) == [tcp_close(l) EXCEPT !.listenfd = NoFd]

\* What the operating system answers to the calls of one poll: whether
\* socket, the set-up calls (setsockopt, bind, listen), accept and send
\* succeed, whether select reports a timeout, whether recv returns -1, and
\* the bytes it reads otherwise (none on a graceful close).  A call that
\* follows a failed one is not made, so its answer is left at success.
TcpBytes == {[nul |-> n] : n \in BOOLEAN}
AllSucceed ==
    [socket |-> TRUE, setup |-> TRUE, accept |-> TRUE, send |-> TRUE,
     timeout |-> FALSE, recv_failed |-> FALSE, recv |-> <<>>]
TcpAnswers ==
    {[AllSucceed EXCEPT !.recv = c] : c \in SeqsUpTo(TcpBytes, 2)}
    \cup {[AllSucceed EXCEPT !.socket = FALSE], [AllSucceed EXCEPT !.setup = FALSE],
          [AllSucceed EXCEPT !.accept = FALSE], [AllSucceed EXCEPT !.send = FALSE],
          [AllSucceed EXCEPT !.timeout = TRUE],
          [AllSucceed EXCEPT !.recv_failed = TRUE]}

\* The bytes recv returned, as bytes of the connected client.
from_client(bytes, client) ==
    [i \in 1..Len(bytes) |-> [nul |-> bytes[i].nul, client |-> client]]

\* tcp_link::poll from the point where the link is connected.
tcp_poll_connected(l, os) ==
    IF ~os.send THEN [link |-> tcp_close(l), ret |-> FALSE, path |-> "send_failed"]
    ELSE LET sent == [l EXCEPT !.send_buf = <<>>] IN
         IF os.timeout THEN [link |-> sent, ret |-> TRUE, path |-> "timeout"]
         ELSE IF os.recv_failed
              THEN [link |-> tcp_close(sent), ret |-> FALSE, path |-> "recv_failed"]
         ELSE LET filled == [sent EXCEPT !.recv_buf =
                                 @ \o from_client(os.recv, sent.connectfd)] IN
              IF Len(os.recv) = 0
              THEN [link |-> tcp_close(filled), ret |-> TRUE, path |-> "graceful"]
              ELSE [link |-> filled, ret |-> TRUE, path |-> "data"]

\* tcp_link::poll from the point where the link is listening.
tcp_poll_listening(l, os) ==
    IF l.connectfd = NoFd
    THEN IF ~os.accept
         THEN [link |-> l, ret |-> FALSE, path |-> "accept_failed"]
         ELSE tcp_poll_connected(
                  [l EXCEPT !.connectfd = l.clients + 1,
                            !.clients = l.clients + 1,
                            !.open = l.open \cup {l.clients + 1}], os)
    ELSE tcp_poll_connected(l, os)

\* tcp_link::poll with a timeout that is not zero.
tcp_poll(l, os) ==
    IF l.listenfd = NoFd
    THEN IF ~os.socket
         THEN [link |-> l, ret |-> FALSE, path |-> "socket_failed"]
         ELSE LET made == [l EXCEPT !.listenfd = l.listeners + 1,
                                    !.listeners = l.listeners + 1] IN
              IF ~os.setup
              THEN [link |-> tcp_closeall(made), ret |-> FALSE, path |-> "setup_failed"]
              ELSE tcp_poll_listening(made, os)
    ELSE tcp_poll_listening(l, os)

\* One call of poll.
TcpPoll ==
    /\ tcp_pc = "on"
    /\ \E os \in TcpAnswers :
         LET r == tcp_poll(TcpLink, os) IN
         /\ r.link.clients <= MaxClients
         /\ r.link.listeners <= MaxClients
         /\ Len(r.link.recv_buf) <= MaxTcpBuf
         /\ listenfd' = r.link.listenfd
         /\ connectfd' = r.link.connectfd
         /\ tcp_recv_buf' = r.link.recv_buf
         /\ tcp_send_buf' = r.link.send_buf
         /\ tcp_open' = r.link.open
         /\ tcp_listeners' = r.link.listeners
         /\ tcp_clients' = r.link.clients
         /\ tcp_lost' = (tcp_lost \/ (r.path = "graceful" /\ tcp_recv_buf # <<>>))
         /\ tcp_ret' = r.ret
         /\ tcp_path' = r.path
    /\ tcp_call' = "poll"
    /\ UNCHANGED <<tcp_pc, tcp_got>>
    /\ UNCHANGED <<link_vars, server_vars, shared_vars, agent_vars, hist_vars,
                   fr_vars, beside_tcp>>

\* One call of recv.
TcpRecv ==
    /\ tcp_pc = "on"
    /\ tcp_got' = link_recv(tcp_recv_buf).packet
    /\ tcp_recv_buf' = link_recv(tcp_recv_buf).rest
    /\ tcp_call' = "recv"
    /\ UNCHANGED <<tcp_pc, listenfd, connectfd, tcp_send_buf, tcp_ret, tcp_path,
                   tcp_open, tcp_listeners, tcp_clients, tcp_lost>>
    /\ UNCHANGED <<link_vars, server_vars, shared_vars, agent_vars, hist_vars,
                   fr_vars, beside_tcp>>

\* One call of send, with a packet of one byte.
TcpSend ==
    /\ tcp_pc = "on"
    /\ Len(tcp_send_buf) + 2 <= MaxTcpBuf
    /\ tcp_send_buf' = link_send(tcp_send_buf, <<[nul |-> FALSE, json |-> JsonDiscarded]>>)
    /\ tcp_call' = "send"
    /\ UNCHANGED <<tcp_pc, listenfd, connectfd, tcp_recv_buf, tcp_ret, tcp_path,
                   tcp_open, tcp_listeners, tcp_clients, tcp_got, tcp_lost>>
    /\ UNCHANGED <<link_vars, server_vars, shared_vars, agent_vars, hist_vars,
                   fr_vars, beside_tcp>>

InitTcpLink ==
    InitProgram /\ InitFraming /\ InitBesideTcpOff /\ tcp_pc = "on" /\ InitTcp

NextTcp == TcpPoll \/ TcpRecv \/ TcpSend

SpecTcp == InitTcpLink /\ [][NextTcp]_vars

\* A step is a call of poll.
PollStep == tcp_call' = "poll"

\* The clients whose bytes a sequence of bytes holds.
ClientsIn(bytes) == {bytes[i].client : i \in 1..Len(bytes)}

\* C24: a poll whose read returns zero bytes closes the connection, keeps the
\* listener, leaves both buffers empty and returns true; a poll that follows
\* it goes to accept on the same listener, and when it returns true it has
\* accepted a new client; at most one connection is open at any time; the
\* bytes of the receive buffer and of every packet recv returns come from
\* one client.
C24_GracefulClose ==
    /\ [][PollStep /\ tcp_path' = "graceful" =>
              /\ connectfd' = NoFd /\ tcp_open' = {}
              /\ listenfd' # NoFd /\ (listenfd # NoFd => listenfd' = listenfd)
              /\ tcp_recv_buf' = <<>> /\ tcp_send_buf' = <<>>
              /\ tcp_ret']_vars
    /\ [][PollStep /\ tcp_path = "graceful" =>
              /\ listenfd' = listenfd /\ tcp_listeners' = tcp_listeners
              /\ tcp_path' = "accept_failed" \/ tcp_clients' = tcp_clients + 1
              /\ tcp_ret' => tcp_clients' = tcp_clients + 1
              /\ tcp_path' \in {"timeout", "data"} => connectfd' = tcp_clients']_vars
    /\ [](Cardinality(tcp_open) <= 1)
    /\ [](tcp_open = {connectfd} \ {NoFd})
    /\ [](ClientsIn(tcp_recv_buf) \subseteq {connectfd})
    /\ [](Cardinality(ClientsIn(tcp_got)) <= 1)

\* A client's unfinished packet was erased at its close, and a later client
\* has had a packet of its own received.
C24_Witness ==
    /\ tcp_lost
    /\ tcp_clients >= 2
    /\ ClientsIn(tcp_got) = {tcp_clients}

(***************************************************************************)
(* The input-command player of models.cc.  input_ptr counts the commands   *)
(* passed, so the head command is input_cmds[input_ptr + 1].  A payload is *)
(* modelled by a number; the file holds well-formed commands and commands  *)
(* of a type that is neither wait nor action.                              *)
(***************************************************************************)
MaxCmds == 4

EventTypes == {"change", "tx"}
Payloads == {0, 1}
WaitCommands ==
    {[type |-> "wait", peripheral |-> "gpio_0", event |-> "change", payload |-> 0],
     [type |-> "wait", peripheral |-> "uart_0", event |-> "tx", payload |-> 1]}
ActionCommands ==
    {[type |-> "action", peripheral |-> "gpio_0", event |-> "change", payload |-> 0],
     [type |-> "action", peripheral |-> "gpio_0", event |-> "tx", payload |-> 1],
     [type |-> "action", peripheral |-> "uart_0", event |-> "change", payload |-> 0]}
OtherCommands ==
    {[type |-> "note", peripheral |-> "gpio_0", event |-> "change", payload |-> 0]}
CommandFiles ==
    SeqsUpTo(WaitCommands \cup ActionCommands \cup OtherCommands, MaxCmds)

\* struct action.
action(event, payload) == [event |-> event, payload |-> payload]

\* The player's state as fetch_actions_into_queue reads and writes it.
Player ==
    [ptr |-> input_ptr, queued |-> queued_actions, from |-> queued_from,
     thrown |-> FALSE]

\* fetch_actions_into_queue.
RECURSIVE fetch_actions_into_queue(_, _)
fetch_actions_into_queue(cmds, pl) ==
    IF ~(pl.ptr < Len(cmds)) THEN pl
    ELSE LET cmd == cmds[pl.ptr + 1] IN
         IF cmd.type = "wait" THEN pl
         ELSE IF cmd.type # "action" THEN [pl EXCEPT !.thrown = TRUE]
         ELSE fetch_actions_into_queue(cmds,
                  [pl EXCEPT !.queued[cmd.peripheral] =
                                 Append(@, action(cmd.event, cmd.payload)),
                             !.from[cmd.peripheral] = Append(@, pl.ptr + 1),
                             !.ptr = pl.ptr + 1])

\* log_event compares the peripheral and the payload only.
wait_matches_any_type(cmd, peripheral, event_type, payload) ==
    cmd.peripheral = peripheral /\ cmd.payload = payload

\* log_event: the comparison of the head wait with the event.
wait_matches(cmd, peripheral, event_type, payload) ==
    cmd.peripheral = peripheral /\ cmd.event = event_type /\ cmd.payload = payload

\* The player takes the state fetch_actions_into_queue left; an exception
\* that escapes it ends the program.
Fetched(pl) ==
    /\ input_ptr' = pl.ptr
    /\ queued_actions' = pl.queued
    /\ queued_from' = pl.from
    /\ ic_pc' = IF pl.thrown THEN "aborted" ELSE ic_pc

\* open_input_commands, with a file that parses.
OpenInputCommands ==
    /\ ic_pc = "on" /\ ~ic_loaded
    /\ \E file \in CommandFiles : input_cmds' = file
    /\ ic_loaded' = TRUE
    /\ UNCHANGED <<ic_pc, input_ptr, queued_actions, ic_logging, queued_from,
                   returned_from, passed_waits, pending_result, pending_of>>
    /\ UNCHANGED <<link_vars, server_vars, shared_vars, agent_vars, hist_vars,
                   fr_vars, beside_ic>>

\* open_event_log, with a file that opens.
OpenEventLog ==
    /\ ic_pc = "on" /\ ~ic_logging
    /\ ic_logging' = TRUE
    /\ Fetched(fetch_actions_into_queue(input_cmds, Player))
    /\ UNCHANGED <<input_cmds, ic_loaded, returned_from, passed_waits,
                   pending_result, pending_of>>
    /\ UNCHANGED <<link_vars, server_vars, shared_vars, agent_vars, hist_vars,
                   fr_vars, beside_ic>>

\* The head command is a wait; an event equals the head command.
HeadIsWait ==
    input_ptr < Len(input_cmds) /\ input_cmds[input_ptr + 1].type = "wait"
EqualsHead(peripheral, event_type, payload) ==
    <<input_cmds[input_ptr + 1].peripheral, input_cmds[input_ptr + 1].event,
      input_cmds[input_ptr + 1].payload>> = <<peripheral, event_type, payload>>

\* log_event.  The assertion is compiled in (NDEBUG is undefined at the top
\* of the file).
LogEvent(peripheral, event_type, payload) ==
    /\ ic_pc = "on"
    /\ IF input_ptr < Len(input_cmds)
       THEN LET cmd == input_cmds[input_ptr + 1] IN
            IF cmd.type # "wait"
            THEN /\ ic_pc' = "aborted"
                 /\ UNCHANGED <<input_ptr, queued_actions, queued_from>>
            ELSE IF wait_matches(cmd, peripheral, event_type, payload)
            THEN Fetched(fetch_actions_into_queue(input_cmds,
                             [Player EXCEPT !.ptr = input_ptr + 1]))
            ELSE UNCHANGED <<ic_pc, input_ptr, queued_actions, queued_from>>
       ELSE UNCHANGED <<ic_pc, input_ptr, queued_actions, queued_from>>
    /\ passed_waits' =
           IF HeadIsWait /\ EqualsHead(peripheral, event_type, payload)
           THEN passed_waits \cup {input_ptr + 1} ELSE passed_waits
    /\ UNCHANGED <<input_cmds, ic_loaded, ic_logging, returned_from,
                   pending_result, pending_of>>
    /\ UNCHANGED <<link_vars, server_vars, shared_vars, agent_vars, hist_vars,
                   fr_vars, beside_ic>>

\* get_pending_actions.
GetPendingActions(peripheral) ==
    /\ ic_pc = "on"
    /\ pending_result' = queued_actions[peripheral]
    /\ pending_of' = peripheral
    /\ queued_actions' = [queued_actions EXCEPT ![peripheral] = <<>>]
    /\ returned_from' = [returned_from EXCEPT ![peripheral] = @ \o queued_from[peripheral]]
    /\ queued_from' = [queued_from EXCEPT ![peripheral] = <<>>]
    /\ UNCHANGED <<ic_pc, input_cmds, input_ptr, ic_loaded, ic_logging, passed_waits>>
    /\ UNCHANGED <<link_vars, server_vars, shared_vars, agent_vars, hist_vars,
                   fr_vars, beside_ic>>

InitPlayer ==
    InitProgram /\ InitFraming /\ InitBesideCommandsOff /\ ic_pc = "on" /\ InitCommands

LogsEvent ==
    \E p \in Peripherals, e \in EventTypes, v \in Payloads : LogEvent(p, e, v)
GetsPending == \E p \in Peripherals : GetPendingActions(p)

NextPlayer == OpenInputCommands \/ OpenEventLog \/ LogsEvent \/ GetsPending

SpecPlayer == InitPlayer /\ [][NextPlayer]_vars

\* The file positions up to n of the actions of a peripheral, in file order.
RECURSIVE ActionsOf(_, _)
ActionsOf(p, n) ==
    IF n = 0 THEN <<>>
    ELSE IF input_cmds[n].type = "action" /\ input_cmds[n].peripheral = p
         THEN Append(ActionsOf(p, n - 1), n)
         ELSE ActionsOf(p, n - 1)

\* The actions at the given file positions.
ActionsAt(positions) ==
    [k \in 1..Len(positions) |->
        action(input_cmds[positions[k]].event, input_cmds[positions[k]].payload)]

\* The position of the first wait after position w, or one past the end.
RECURSIVE NextWait(_)
NextWait(w) ==
    IF w + 1 > Len(input_cmds) THEN w + 1
    ELSE IF input_cmds[w + 1].type = "wait" THEN w + 1
    ELSE NextWait(w + 1)

\* The file positions in a sequence of positions.
Positions(seq) == {seq[k] : k \in 1..Len(seq)}

\* A step is a call of get_pending_actions for peripheral p.
GetStep(p) ==
    /\ pending_of' = p
    /\ <<ic_pc, ic_loaded, ic_logging, passed_waits>>' =
       <<ic_pc, ic_loaded, ic_logging, passed_waits>>

\* C25: every wait that precedes a returned action in the file was passed by
\* an equal event logged while it was the head command; the step that logs
\* such an event queues the actions up to the next wait; the actions
\* returned so far followed by those still queued are, for each peripheral,
\* its actions before the head command, each once, in file order; a call of
\* get_pending_actions returns the queue of the peripheral and empties it.
C25_ActionsAfterWaits ==
    /\ [](\A p \in Peripherals : \A i \in Positions(returned_from[p]) :
            \A w \in 1..i : input_cmds[w].type = "wait" => w \in passed_waits)
    /\ [][passed_waits' # passed_waits /\ ic_pc' = "on" =>
            /\ input_ptr' = NextWait(input_ptr + 1) - 1
            /\ \A p \in Peripherals :
                 Positions(queued_from'[p]) \ Positions(queued_from[p]) =
                     {i \in Positions(ActionsOf(p, input_ptr')) : i > input_ptr + 1}]_vars
    /\ [](\A p \in Peripherals :
            /\ returned_from[p] \o queued_from[p] = ActionsOf(p, input_ptr)
            /\ queued_actions[p] = ActionsAt(queued_from[p]))
    /\ [][\A p \in Peripherals : GetStep(p) =>
            /\ pending_result' = queued_actions[p]
            /\ queued_actions'[p] = <<>>
            /\ \A q \in Peripherals \ {p} : queued_actions'[q] = queued_actions[q]]_vars

\* Two actions that follow a wait were returned by one call, and a later
\* wait is the head command.
C25_Witness ==
    /\ ic_pc = "on"
    /\ passed_waits # {}
    /\ Len(pending_result) >= 2
    /\ pending_result = ActionsAt(returned_from[pending_of])
    /\ \A i \in Positions(returned_from[pending_of]) : \E w \in passed_waits : w < i
    /\ HeadIsWait

(***************************************************************************)
(* Diagnostics.  The design emits print, assert and assume through the     *)
(* performer during step; the stimulus code records diagnostics of every   *)
(* kind through the agent's print, breakpoint, assertion and assumption.   *)
(***************************************************************************)
\* agent::print, agent::breakpoint, agent::assertion and agent::assumption
\* (the last two with a condition that is false).
AgentDiagnostic(kind) ==
    /\ Alive /\ agent_pc = "idle"
    /\ recorded_diagnostics' = recorded_diagnostics \cup {kind}
    /\ UNCHANGED <<link_vars, server_vars, shared_vars, agent_vars, hist_vars,
                   fr_vars, pure_vars>>

DiagTexts ==
    {Greeting(0)} \cup
    {RunSimulation(NullTime, ds, "true") : ds \in {{"break"}, {"print"}, {"assert", "assume"}}}
ServerPollDiag == ServerPollOk(PacketChunks(DiagTexts))
SimDiagnostic == \E kind \in {"break", "assert"} : AgentDiagnostic(kind)

NextDiag ==
    \/ StartDebugging
    \/ SimAdvance
    \/ AgentAdvanceFlush
    \/ AgentAdvancePause
    \/ AgentAdvanceWake
    \/ SimStep
    \/ AgentStepFlush
    \/ AgentStepPause
    \/ AgentStepWake
    \/ SimDiagnostic
    \/ ServerStart
    \/ ServerPollDiag
    \/ ServerDrain
    \/ ServerRunWake
    \/ ServerEvents

SpecDiag == Init /\ [][NextDiag]_vars

\* C28 as stated: a step pauses (it goes on to flush, to set the status to
\* paused with cause diagnostic and to wait) exactly when a kind in
\* run_until_diagnostics was emitted during it, by the design through the
\* performer or by the stimulus code through the agent's helpers.
C28_PausesOnEveryKind ==
    [][ \A emitted \in StepDiagnostics :
          AgentStep(1, emitted) =>
              (agent_pc' = "step_flush" <=>
                   run_until_diagnostics \cap (emitted \cup recorded_diagnostics) # {})
      ]_vars

\* What the code does: only the kinds the design emits through the performer
\* count, and break is not among them; the pause then runs as stated.
C28_PausesOnPerformerKinds ==
    /\ [][ \A emitted \in StepDiagnostics :
             AgentStep(1, emitted) =>
                 (agent_pc' = "step_flush" <=> run_until_diagnostics \cap emitted # {})
         ]_vars
    /\ [][ agent_pc = "step_flush" /\ agent_pc' # agent_pc =>
             agent_pc' = "step_pause" /\ flushed' = Len(spool) ]_vars
    /\ [][ agent_pc = "step_pause" /\ agent_pc' # agent_pc =>
             /\ agent_pc' = "step_wait" /\ status' = "paused"
             /\ cause' = "diagnostic" /\ next_sample_time' = rec_time ]_vars
    /\ [][ agent_pc = "step_wait" /\ agent_pc' # agent_pc => unpause ]_vars

\* A breakpoint was recorded while break is in run_until_diagnostics, and the
\* simulation runs on.
C28_BreakNotPaused ==
    /\ "break" \in run_until_diagnostics
    /\ "break" \in recorded_diagnostics
    /\ status = "running" /\ agent_pc = "idle"

\* A step is the return of the wait in advance: the agent resumes.
AdvanceResumes == agent_pc = "adv_wait" /\ unpause /\ ~unpause'

\* What C29 says of every step that commits a time and of the pause: the
\* commit is a step of the simulation thread inside advance, taken with the
\* mutex (no step of the server thread is part of it), to a time that is at
\* most run_until_time; the pause sets cause time and next_sample_time to
\* the target.
AdvanceCommitsWithinRun ==
    /\ [][ latest_time' # latest_time =>
             /\ agent_pc \in {"idle", "adv_wait"} /\ agent_pc' = "idle"
             /\ server_vars' = server_vars /\ link_vars' = link_vars
             /\ run_until_time' = run_until_time
             /\ latest_time' <= run_until_time
             /\ latest_time' = rec_time' ]_vars
    /\ [][ agent_pc = "adv_pause" /\ agent_pc' # agent_pc =>
             /\ agent_pc' = "adv_wait" /\ status' = "paused" /\ cause' = "time"
             /\ next_sample_time' = advanced_time
             /\ advanced_time > run_until_time ]_vars

\* C29 as stated: with that, a resume with a run_until_time that is not
\* beyond the target (at most the target) does not let the time advance.
C29_NoAdvanceUnlessBeyond ==
    /\ AdvanceCommitsWithinRun
    /\ [][ AdvanceResumes /\ run_until_time <= advanced_time =>
             latest_time' = latest_time ]_vars

\* C29 as the code has it: a resume with a run_until_time before the target
\* pauses again, with cause time and next_sample_time the target, and the
\* time stays; a resume with a run_until_time at or past the target commits
\* the target.
C29_NoAdvanceWhileBefore ==
    /\ AdvanceCommitsWithinRun
    /\ [][ AdvanceResumes /\ run_until_time < advanced_time =>
             /\ latest_time' = latest_time /\ rec_time' = rec_time
             /\ agent_pc' = "adv_wait" /\ status' = "paused"
             /\ cause' = "time" /\ next_sample_time' = advanced_time ]_vars
    /\ [][ AdvanceResumes /\ run_until_time >= advanced_time =>
             /\ latest_time' = advanced_time /\ status' = "running"
             /\ agent_pc' = "idle" ]_vars

\* The agent waits in advance for the second time: a resume with a
\* run_until_time before the target has sent it back into the pause.
C29_Witness ==
    /\ agent_pc = "adv_wait" /\ ~unpause
    /\ status = "paused" /\ cause = "time"
    /\ last_run_bounded
    /\ run_until_time > 0 /\ run_until_time < advanced_time
    /\ latest_time < advanced_time

\* A step of the server thread: the thread exists and its position, its
\* state or the buffers of the link change.  Every other step is an
\* operation of the agent.
ServerStep ==
    server_pc # "none" /\ (server_vars' # server_vars \/ link_vars' # link_vars)

\* A step writes a field of the agent's side, or of the server's side.
WritesAgentSide ==
    \/ <<status, latest_time, next_sample_time, cause>>' #
       <<status, latest_time, next_sample_time, cause>>
    \/ unpause /\ ~unpause'
WritesServerSide ==
    \/ <<run_until_time, run_until_diagnostics>>' #
       <<run_until_time, run_until_diagnostics>>
    \/ ~unpause /\ unpause'

\* agent::start_debugging: the step that creates the server thread.
StartsDebugging == server_pc = "none" /\ server_pc' = "start"

IsFinishedEvent(byte) ==
    ~byte.nul /\ byte.json.type = "event" /\ byte.json.name = "simulation_finished"

\* C31: the simulation_finished latch is never set, and no
\* simulation_finished event is ever in the send buffer, whatever the status.
C31_NeverFinishedEvent ==
    /\ ~emit_simulation_finished
    /\ \A i \in 1..Len(send_buf) : ~IsFinishedEvent(send_buf[i])

\* The server has answered a get_simulation_status with status finished and
\* has gone through the event block since: the link polls on after the
\* agent set the status to finished.
C31_Witness ==
    /\ status = "finished" /\ agent_pc = "joining"
    /\ server_pc = "poll"
    /\ Holds(send_buf, build_response_get_simulation_status(
                           "finished", latest_time, next_sample_time))

(***************************************************************************)
(* The handshake on the condition variable.                                *)
(***************************************************************************)
\* The server thread is blocked in condvar.wait: in server::start, in
\* perform_run_simulation or in perform_pause_simulation.
ServerWaits == server_pc \in {"start", "run_wait", "pause_wait"}

\* The predicate of the wait the server thread is in.
ServerPredicate ==
    CASE server_pc = "start" -> status # "initializing"
      [] server_pc = "run_wait" -> ~unpause
      [] server_pc = "pause_wait" -> status # "running"
      [] OTHER -> TRUE

\* The simulation thread is blocked in condvar.wait, in advance or in step;
\* its predicate is unpause == true.
AgentWaits == agent_pc \in {"adv_wait", "step_wait"}

\* The steps in which the code calls condvar.notify_all, all of them with
\* the mutex held: the pause and the resumption of advance and of step, the
\* first step, the destructor, and run_simulation and pause_simulation.
NotifyStep ==
    \/ agent_pc = "adv_pause" /\ agent_pc' = "adv_wait"
    \/ agent_pc = "adv_wait" /\ unpause /\ ~unpause'
    \/ agent_pc = "step_pause" /\ agent_pc' = "step_wait"
    \/ agent_pc = "step_wait" /\ agent_pc' = "idle"
    \/ agent_pc = "idle" /\ status = "initializing" /\ status' = "running"
    \/ agent_pc = "idle" /\ status # "finished" /\ status' = "finished"
    \/ server_pc = "drain" /\ server_pc' = "run_wait"
    \/ /\ server_pc = "drain" /\ NeedsMutex(HeadPacket)
       /\ HeadPacket.command = "pause_simulation"

\* C32 (first part): the server thread and the simulation thread are never
\* both blocked on the condition variable with both predicates false.
C32_NoDeadlock ==
    ~(ServerWaits /\ AgentWaits /\ ~ServerPredicate /\ ~unpause)

\* C32 (second part): a step that makes the predicate of a blocked thread
\* true is a step that calls notify_all.
C32_WakesNotified ==
    [][/\ (ServerWaits /\ ~ServerPredicate /\ ServerWaits' /\ ServerPredicate')
            => NotifyStep
       /\ (AgentWaits /\ ~unpause /\ AgentWaits' /\ unpause') => NotifyStep]_vars

\* C32: no deadlock of the handshake, and no wake-up without a notification.
C32_Handshake == []C32_NoDeadlock /\ C32_WakesNotified

\* The server waits in perform_pause_simulation while the simulation runs,
\* and the simulation thread has paused in response and waits in turn.
C32_Witness ==
    /\ server_pc = "pause_wait" /\ agent_pc = "adv_wait"
    /\ status = "paused" /\ ~unpause

\* C33: with the mutex released, unpause == true implies status == paused;
\* unpause is set only while the status is paused and stays paused, and a
\* step that changes the status while unpause is set clears unpause.
C33_UnpauseOnlyWhilePaused ==
    /\ []((~AgentHoldsMutex /\ unpause) => status = "paused")
    /\ [][/\ (~unpause /\ unpause') => (status = "paused" /\ status' = "paused")
          /\ (unpause /\ status' # status) => ~unpause']_vars

\* The server has set unpause after a pause taken in step and waits for the
\* simulation thread to clear it.
C33_Witness ==
    /\ unpause /\ status = "paused"
    /\ server_pc = "run_wait" /\ agent_pc = "step_wait"

\* A step in which perform_run_simulation returns to process_packet.
RunSimulationReturns == server_pc = "run_wait" /\ server_pc' = "drain"

\* The latch is set only by an accepted run_simulation, and every
\* simulation_paused event takes the latch it is sent for, so that no more
\* events are sent than run_simulation commands were accepted; the event is
\* sent after the simulation thread has ended the pause in which the
\* run_simulation was accepted.
PausedEventPerRun ==
    /\ (~emit_simulation_paused /\ emit_simulation_paused') =>
           (server_pc = "drain" /\ server_pc' = "run_wait" /\ status = "paused")
    /\ SendsPausedEvent =>
           /\ emit_simulation_paused /\ ~emit_simulation_paused'
           /\ Len(send_buf') = Len(send_buf) + 2
           /\ status = "paused" /\ run_credit = 0 /\ ~unpause
    /\ RunSimulationReturns => (run_credit = 0 /\ ~unpause)

\* C34 as stated: no more simulation_paused events than accepted
\* run_simulation commands, none for the pause in which the run_simulation
\* was accepted, and when run_simulation returns the status is running or
\* paused.
C34_EventPerRunSeesRunningOrPaused ==
    [][ /\ PausedEventPerRun
        /\ RunSimulationReturns => status \in {"running", "paused"} ]_vars

\* C34 amended: when run_simulation returns the status is running, paused
\* anew, or finished.
C34_EventPerRun ==
    [][ /\ PausedEventPerRun
        /\ RunSimulationReturns => status \in {"running", "paused", "finished"} ]_vars

\* An event was sent for the pause that followed an accepted run_simulation
\* bounded by time, and the latch is clear again.
C34_Witness ==
    /\ status = "paused" /\ cause = "time" /\ run_credit = 0
    /\ ~emit_simulation_paused /\ last_run_bounded
    /\ server_pc = "poll"
    /\ Holds(send_buf, build_event_simulation_paused(latest_time, "until_time"))

(***************************************************************************)
(* The program with stimulus code that may end, destroying the agent,      *)
(* before its first step, and a debugger that examines the timeline.       *)
(***************************************************************************)
EarlyTexts ==
    {Greeting(0), QueryInterval(0, 0, "true", Null, Null, "false"),
     QueryInterval(0, MaxTime, "false", Null, Null, "true")}
ServerPollEarly == ServerPollOk(PacketChunks(EarlyTexts))

NextEarly ==
    \/ StartDebugging
    \/ SimStepQuiet
    \/ SimAdvance
    \/ AgentAdvanceFlush
    \/ AgentAdvancePause
    \/ AgentDestroy
    \/ AgentJoin
    \/ ServerStart
    \/ ServerPollEarly
    \/ ServerPollFail
    \/ ServerDrain
    \/ ServerEvents

SpecEarly == Init /\ [][NextEarly]_vars

\* A step in which perform_query_interval is called.
PerformsQuery ==
    /\ ProcessesCommand("query_interval")
    /\ parse_command_query_interval(HeadPacket, references) = Ok

\* C35: whenever the server executes a query_interval the spool holds a
\* flushed complete snapshot, the rewind succeeds and the assertion on its
\* result holds.
C35_SnapshotBeforeQuery ==
    [][ PerformsQuery =>
          /\ flushed > 0 /\ spool[1].complete
          /\ player_pos # 0
          /\ server_pc' # "aborted" ]_vars

\* The other way out of initializing: after a first step the queries are
\* answered.
C35_SnapshotAfterFirstStep ==
    [][ (PerformsQuery /\ Len(spool) > 0) =>
          /\ flushed > 0 /\ spool[1].complete
          /\ player_pos # 0
          /\ server_pc' # "aborted" ]_vars

\* A step in which perform_reference_items is called with designators.
PerformsReferenceItems ==
    /\ ProcessesCommand("reference_items")
    /\ parse_command_reference_items(HeadPacket) = Ok
    /\ HeadPacket.items_kind # Null

\* C36: for every reference_items packet the parser accepts, the indices of
\* every designator are below the depth of its item, so that the assertion
\* of perform_reference_items holds and the server goes on.
C36_IndicesWithinDepth ==
    [][ PerformsReferenceItems =>
          /\ first_out_of_range(HeadPacket.items, 1) = 0
          /\ server_pc' # "aborted" ]_vars

\* C37: for every query_interval packet the parser accepts, no reference is
\* named or the encoding is base64(u32), so that the assertion at the start
\* of perform_query_interval holds and the query is answered with a packet.
C37_EncodingWithReference ==
    [][ PerformsQuery =>
          /\ (HeadPacket.items_kind = "string" =>
                  HeadPacket.encoding = "base64(u32)")
          /\ (HeadPacket.items_kind = "string"
              /\ ~reads_out_of_range(references[HeadPacket.items_ref])) =>
                  server_pc' # "aborted" ]_vars

(***************************************************************************)
(* The server on a tcp_link.  The descriptors are those of the tcp_link    *)
(* above; the bytes of its two buffers are kept, with their contents, in   *)
(* recv_buf and send_buf, which tcp_link::close erases.  The first client  *)
(* greets; the clients accepted after it send commands only.               *)
(***************************************************************************)
SessionCommands ==
    {Command("get_simulation_status"),
     ReferenceItems("A", "array", <<Desig1("clk")>>),
     RunSimulation(1, {}, "true")}
SessionTexts(client) ==
    IF client = 1 THEN {Greeting(0)} \cup SessionCommands ELSE SessionCommands

\* The paths of tcp_link::poll on which close() or closeall() runs.
ClosingPaths == {"setup_failed", "send_failed", "recv_failed", "graceful"}

\* What one poll of the tcp_link does to the descriptors and to the buffers.
TcpServerPoll(r) ==
    /\ r.link.clients <= MaxClients
    /\ listenfd' = r.link.listenfd
    /\ connectfd' = r.link.connectfd
    /\ tcp_open' = r.link.open
    /\ tcp_listeners' = r.link.listeners
    /\ tcp_clients' = r.link.clients
    /\ tcp_ret' = r.ret
    /\ tcp_path' = r.path
    /\ tcp_call' = "poll"
    /\ send_buf' = IF r.path \in ClosingPaths \cup {"timeout", "data"}
                   THEN <<>> ELSE send_buf
    /\ IF r.path = "data"
       THEN \E j \in SessionTexts(r.link.connectfd) :
                recv_buf' = recv_buf \o <<Text(j), NUL>>
       ELSE recv_buf' = IF r.path \in ClosingPaths THEN <<>> ELSE recv_buf
    /\ polled_packets' = CountNul(recv_buf')
    /\ server_pc' = IF r.ret THEN "drain" ELSE "exited"
    /\ UNCHANGED <<tcp_pc, tcp_recv_buf, tcp_send_buf, tcp_got, tcp_lost>>
    /\ UNCHANGED <<emit_simulation_finished, player_pos, shared_vars, agent_vars,
                   last_run_bounded, seen_greeting0, run_credit, ref_log,
                   query_log, fr_vars, beside_tcp>>

\* The poll of a server that starts a new session with every client it
\* accepts.
ServerPollTcp_new_session ==
    /\ Alive /\ server_pc = "poll" /\ tcp_pc = "server"
    /\ \E os \in TcpAnswers :
         LET r == tcp_poll(TcpLink, os) IN
         /\ TcpServerPoll(r)
         /\ IF r.link.clients > tcp_clients
            THEN /\ got_greeting' = FALSE
                 /\ emit_simulation_paused' = FALSE
                 /\ references' = [n \in RefNames |-> NoRef]
            ELSE UNCHANGED <<got_greeting, emit_simulation_paused, references>>

\* link.poll of server::run where the link is a tcp_link.
ServerPollTcp ==
    /\ Alive /\ server_pc = "poll" /\ tcp_pc = "server"
    /\ \E os \in TcpAnswers : TcpServerPoll(tcp_poll(TcpLink, os))
    /\ UNCHANGED <<got_greeting, emit_simulation_paused, references>>

InitSession ==
    InitProgram /\ InitFraming /\ InitBesideTcpOff /\ tcp_pc = "server" /\ InitTcp

NextSession ==
    \/ StartDebugging
    \/ SimFirstStep
    \/ SimAdvance
    \/ AgentAdvanceFlush
    \/ AgentAdvancePause
    \/ AgentAdvanceWake
    \/ ServerStart
    \/ ServerPollTcp
    \/ ServerDrain
    \/ ServerRunWake
    \/ ServerEvents

SpecSession == InitSession /\ [][NextSession]_vars

\* C38: the greeting flag is never cleared; no poll of the link, whether it
\* closes a connection or accepts a new client, changes the greeting flag,
\* the references or the simulation_paused latch; and a command of a client
\* accepted after the first, which has sent no greeting, is not answered
\* with protocol_error once a greeting was accepted.
C38_SessionOutlivesConnection ==
    [][ /\ got_greeting => got_greeting'
        /\ server_pc = "poll" =>
              /\ got_greeting' = got_greeting
              /\ references' = references
              /\ emit_simulation_paused' = emit_simulation_paused
        /\ (Processes /\ got_greeting /\ connectfd >= 2) =>
              /\ ~Sends(build_error("protocol_error"))
              /\ HeadPacket.command = "get_simulation_status" =>
                    reply_of(send_buf, send_buf').type = "response" ]_vars

\* The second client, which has sent no greeting, holds the response to its
\* command; the reference and the latch that the first client set are there.
C38_Witness ==
    /\ connectfd = 2 /\ tcp_clients = 2 /\ got_greeting
    /\ LastSent.type = "response"
    /\ references["A"].defined
    /\ emit_simulation_paused

(***************************************************************************)
(* The program up to and around the first pause: a debugger that asks for  *)
(* the status and runs the simulation, and never sends pause_simulation,   *)
(* so that run_until_time is zero exactly from start_debugging to the      *)
(* first accepted run_simulation.                                          *)
(***************************************************************************)
FirstTexts ==
    {Greeting(0), Command("get_simulation_status"),
     RunSimulation(MaxTime, {}, "true"), RunSimulation(NullTime, {"assert"}, "true")}
ServerPollFirst == ServerPollOk(PacketChunks(FirstTexts))

NextFirst ==
    \/ StartDebugging
    \/ SimAdvance
    \/ AgentAdvanceFlush
    \/ AgentAdvancePause
    \/ AgentAdvanceWake
    \/ SimStepAssert
    \/ AgentStepFlush
    \/ AgentStepPause
    \/ AgentStepWake
    \/ AgentDestroy
    \/ ServerStart
    \/ ServerPollFirst
    \/ ServerDrain
    \/ ServerRunWake
    \/ ServerEvents

SpecFirst == Init /\ [][NextFirst]_vars

\* start_debugging was never called.
NeverDebugged == server_pc = "none"
\* start_debugging was called and no run_simulation has been accepted.
AwaitsFirstRun == server_pc # "none" /\ run_until_time = 0

\* Without start_debugging the agent has run_until_time at the maximum and
\* an empty mask and never blocks; after it, until the first run_simulation
\* is accepted, the time does not advance, a pause is one taken in advance
\* with cause time and a target above zero, no simulation_paused event is
\* latched or sent, and the status stays paused once it is.
FirstPause ==
    /\ [](NeverDebugged =>
            /\ run_until_time = TimeMaximum /\ run_until_diagnostics = {}
            /\ agent_pc \in {"idle", "destroyed"}
            /\ status # "paused")
    /\ [](AwaitsFirstRun =>
            /\ run_until_diagnostics = {} /\ ~emit_simulation_paused
            /\ \A i \in 1..Len(send_buf) :
                  send_buf[i].nul \/ send_buf[i].json.type # "event"
            /\ status = "paused" =>
                  (cause = "time" /\ agent_pc = "adv_wait" /\ advanced_time > 0))
    /\ [][AwaitsFirstRun =>
            /\ rec_time' = rec_time /\ latest_time' = latest_time
            /\ status = "paused" => status' = "paused"
            /\ (agent_pc = "idle" /\ advanced_time' > 0) => agent_pc' = "adv_flush"]_vars

\* C39 as stated: the agent pauses in the first advance after
\* start_debugging, before any sample later than the initial one is
\* recorded, and stays paused until a run_simulation is accepted; an agent
\* never debugged never blocks.
C39_PausesBeforeLaterSample ==
    /\ FirstPause
    /\ [](AwaitsFirstRun => \A i \in 1..Len(spool) : spool[i].t <= spool[1].t)

\* C39 amended: before any sample later than the time the recorder had at
\* start_debugging is recorded.
C39_PausesBeforeTimeAdvances ==
    /\ FirstPause
    /\ [](AwaitsFirstRun => \A i \in 1..Len(spool) : spool[i].t <= rec_time)

\* The agent waits in its first pause, which the server has reported as
\* paused in a status response, after start_debugging was called at time 1.
C39_Witness ==
    /\ AwaitsFirstRun /\ status = "paused" /\ agent_pc = "adv_wait"
    /\ rec_time = 1 /\ advanced_time = 2
    /\ Holds(send_buf, build_response_get_simulation_status("paused", latest_time,
                                                            next_sample_time))

\* The scopes list_scopes returns for a scope argument that is not null.
ListedUnder(scope) == DOMAIN perform_list_scopes(FALSE, scope, sc_items, sc_scopes)

\* The scope is returned by the listing of "" where it has no parent, and by
\* the listing of its parent otherwise.
ListedByParent(scope) ==
    IF find_space(scope) = 0 THEN scope \in ListedUnder(<<>>)
    ELSE scope \in ListedUnder(parent_of(scope))

\* C40: every scope that list_scopes returns with scope null is returned by
\* the listing of "" or of its parent, and that parent is returned by the
\* listing of its own parent.
C40_WalkFromRoot ==
    (sc_pc = "done" /\ sc_all) =>
        \A i \in 1..Len(sc_response) :
            /\ ListedByParent(sc_response[i].scope)
            /\ find_space(sc_response[i].scope) # 0 =>
                   ListedByParent(parent_of(sc_response[i].scope))

\* What holds: every scope returned with scope null is returned by the
\* listing of "" or of its parent.
C40_ListedUnderParent ==
    (sc_pc = "done" /\ sc_all) =>
        \A i \in 1..Len(sc_response) : ListedByParent(sc_response[i].scope)

====
